---- MODULE Spec2Model ----
(***************************************************************************)
(* SwitchrootDepot.py: the download pool and the segmented transfer engine *)
(* (download_files_pool, download_file_worker, download_segment,           *)
(* create_android_ini, save_download_settings), the task planner           *)
(* (start_download_thread), the catalog scan (fetch_gapps_repo_list,       *)
(* find_matching_gapps_repo, scan_android_builds), the scan cache read at  *)
(* start-up (load_last_scan, load_cached_scan), the rate limit of the      *)
(* progress updates, the end of a scan with its main-loop callbacks        *)
(* (scan_servers, set_ui_state) and the catalog rows on their way through  *)
(* the tree and the cache (add_tree_item, save_scan_cache).                *)
(*                                                                         *)
(* File contents are sequences of extents <<url, lo, hi>> (bytes lo..hi of *)
(* the resource at url), so that resources larger than the 5 MiB           *)
(* threshold keep their real sizes.                                        *)
(***************************************************************************)
EXTENDS Integers, Sequences, FiniteSets, TLC

VARIABLES
    download_connections,   \* self.download_connections
    completed_downloads,    \* self.completed_downloads
    download_lock,          \* self.download_lock: 0 when free, else the holding task
    tasks,                  \* the task list handed to download_files_pool
    android_device_types,   \* download_files_pool's local set (line 1035)
    pool,                   \* download_files_pool's position
    ini_left,               \* device types the loop of line 1053 has not visited yet
    ini_runs,               \* per device type, how often create_android_ini was called
    reported,               \* how often "All download tasks complete." was logged
    w,                      \* per task: the state of its download_file_worker call
    fs,                     \* the file system under download_dir
    saves,                  \* settings saves so far (bounded by MaxSaves)
    selection,              \* the selected tree rows, self.tree.selection(), in tree order
    ANDROID_REQUIRED_FILES, \* self.ANDROID_REQUIRED_FILES (components.json)
    gapps_repo_list,        \* self.gapps_repo_list
    api_builds,             \* per device, the builds the LineageOS API lists
    scan_at,                \* position of scan_android_builds: [dev, i, pc]
    fetched_gapps_versions, \* scan_android_builds' local dict
    lookups,                \* per key, how often the scan looked the companion up
    repo_name,              \* the last call of find_matching_gapps_repo and its result
    tree,                   \* the rows of self.tree, in insertion order
    download_dir,           \* self.download_dir as the file system sees it
    ui_state,               \* state of scan_button and download_button (set_ui_state)
    messagebox,             \* the dialog start_download_thread showed last
    now,                    \* time.time()
    last_update_time,       \* self.last_update_time
    chunk,                  \* per streaming worker: position in its "Rate-limit" block
    progress_calls,         \* times of the update_progress calls handed to the main loop
    last_scan_file,         \* the document at LAST_SCAN_FILE
    cache_data,             \* what load_last_scan returned
    startup,                \* position of load_cached_scan in __init__
    after_calls,            \* callbacks handed to self.master.after(0, ...), in order
    second_pool             \* a download_files_pool thread started while one is running

\* what start_download_thread reads
plan_vars == <<selection, ANDROID_REQUIRED_FILES>>

\* the state of the catalog scan
scan_vars == <<gapps_repo_list, api_builds, scan_at, fetched_gapps_versions,
               lookups, repo_name>>

\* what the progress throttle reads and writes
throttle_vars == <<now, last_update_time, chunk, progress_calls>>

\* what the start-up load of the scan cache reads and writes
cache_vars == <<last_scan_file, cache_data, startup>>

\* the callbacks waiting in the main loop and the pool thread of a second run
loop_vars == <<after_calls, second_pool>>

\* the window: tree, download directory, buttons, dialog
shell_vars == <<tree, download_dir, ui_state, messagebox, throttle_vars, cache_vars,
                loop_vars>>

\* what the download pool and its workers read and write
engine_vars == <<download_connections, completed_downloads, download_lock, tasks,
                 android_device_types, pool, ini_left, ini_runs, reported, w, fs, saves>>

vars == <<download_connections, completed_downloads, download_lock, tasks,
          android_device_types, pool, ini_left, ini_runs, reported, w, fs, saves,
          plan_vars, scan_vars, shell_vars>>

----------------------------------------------------------------------------
(* Bounds of the model *)

\* largest connection count a settings save or the settings file may give
MaxConn == 3
\* how many settings saves may happen during one run
MaxSaves == 1
\* bytes by which the largest resource exceeds the multi-connection threshold
ExtraBytes == 3

(* Program constants *)

\* ThreadPoolExecutor(max_workers=4), line 1043
PoolWidth == 4
\* 5 * 1024 * 1024, line 1138
MultiThreshold == 5242880

\* both buttons in one state, as set_ui_state leaves them
Buttons(state) == [scan_button |-> state, download_button |-> state]

----------------------------------------------------------------------------
(* Extents and file contents *)

ExtLen(e) == e[3] - e[2] + 1

RECURSIVE Bytes(_)
Bytes(d) == IF d = <<>> THEN 0 ELSE ExtLen(Head(d)) + Bytes(Tail(d))

\* the first n bytes of d
RECURSIVE Take(_, _)
Take(d, n) ==
    IF n <= 0 \/ d = <<>> THEN <<>>
    ELSE IF ExtLen(Head(d)) <= n
         THEN <<Head(d)>> \o Take(Tail(d), n - ExtLen(Head(d)))
         ELSE << <<Head(d)[1], Head(d)[2], Head(d)[2] + n - 1>> >>

\* d without its first n bytes
RECURSIVE Drop(_, _)
Drop(d, n) ==
    IF n <= 0 \/ d = <<>> THEN d
    ELSE IF ExtLen(Head(d)) <= n
         THEN Drop(Tail(d), n - ExtLen(Head(d)))
         ELSE << <<Head(d)[1], Head(d)[2] + n, Head(d)[3]>> >> \o Tail(d)

\* adjacent extents of one resource joined, empty extents dropped
RECURSIVE Norm(_)
Norm(d) ==
    IF d = <<>> THEN <<>>
    ELSE IF ExtLen(Head(d)) <= 0 THEN Norm(Tail(d))
    ELSE IF Len(d) = 1 THEN d
    ELSE IF ExtLen(d[2]) <= 0 THEN Norm(<<d[1]>> \o Tail(Tail(d)))
    ELSE IF d[1][1] = d[2][1] /\ d[1][3] + 1 = d[2][2]
         THEN Norm(<< <<d[1][1], d[1][2], d[2][3]>> >> \o Tail(Tail(d)))
         ELSE <<d[1]>> \o Norm(Tail(d))

\* a hole left by writing past the end of a file reads as zero bytes
Zeros(n) == IF n > 0 THEN << <<"zero", 0, n - 1>> >> ELSE <<>>

\* file.write at offset off: overwrites what is there, extends the file
WriteAt(d, off, new) ==
    Norm(Take(d, off) \o Zeros(off - Bytes(d)) \o new \o Drop(d, off + Bytes(new)))

NoFile == [ex |-> FALSE, gen |-> 0, data |-> <<>>]

\* open(p, 'wb'): creates the file or truncates it; the handle is [path, gen, off]
OpenWB(f, p) == [f EXCEPT ![p] = [ex |-> TRUE, gen |-> @.gen, data |-> <<>>]]
Handle(f, p) == [path |-> p, gen |-> f[p].gen, off |-> 0]
NoHandle == [path |-> <<>>, gen |-> 0, off |-> 0]

\* a handle whose file was removed since writes to the orphaned file, which no
\* path names any more
Live(f, h) == f[h.path].ex /\ f[h.path].gen = h.gen
WriteH(f, h, new) ==
    IF Live(f, h)
    THEN [f EXCEPT ![h.path].data = WriteAt(@, h.off, new)]
    ELSE f
Advance(h, new) == [h EXCEPT !.off = @ + Bytes(new)]

\* os.remove(p) of an existing file
Remove(f, p) == [f EXCEPT ![p] = [ex |-> FALSE, gen |-> @.gen + 1, data |-> <<>>]]
\* try: os.remove(p) except OSError: pass
TryRemove(f, p) == IF f[p].ex THEN Remove(f, p) ELSE f

RECURSIVE TryRemoveAll(_, _)
TryRemoveAll(f, ps) ==
    IF ps = <<>> THEN f ELSE TryRemoveAll(TryRemove(f, Head(ps)), Tail(ps))

----------------------------------------------------------------------------
(* Tasks and paths *)

\* a task tuple (url, name, num, total, dist_type, device_type[, file_path]);
\* path is <<>> when the tuple has no seventh element (file_path=None)
Task(url, name, num, total, dist, dev, path) ==
    [url |-> url, name |-> name, num |-> num, total |-> total,
     dist |-> dist, dev |-> dev, path |-> path]

\* the folder "Android-{device_type}" under download_dir
Folder(dev) == <<"Android-", dev>>

\* filepath as download_file_worker determines it (download_dir is the root)
FilePath(task) ==
    IF task.dist \in {"Android", "GApps"} /\ task.dev # ""
    THEN Folder(task.dev) \o <<task.name>>
    ELSE IF task.dist = "Android-Build" /\ task.dev # ""
    THEN IF task.name \in {"boot.img", "recovery.img", "nx-plat.dtimg"}
         THEN Folder(task.dev) \o <<"switchroot", "install", task.name>>
         ELSE Folder(task.dev) \o <<"switchroot", "android", task.name>>
    ELSE IF task.dist = "Android-Extras" /\ task.dev # ""
    THEN IF task.path # <<>>
         THEN Folder(task.dev) \o task.path
         ELSE Folder(task.dev) \o <<"switchroot", "android", task.name>>
    ELSE <<task.name>>

\* whether the branch taken calls os.makedirs (every branch but the default one)
MakesDirs(task) ==
    task.dev # "" /\ task.dist \in {"Android", "GApps", "Android-Build", "Android-Extras"}

PartSuffix == <<".part0", ".part1", ".part2", ".part3", ".part4", ".part5">>

\* f"{filepath}.part{i}", i counted from 0
TempPath(p, i) == p \o <<PartSuffix[i + 1]>>

\* the temp paths .part0 .. .part(n-1) in index order
TempPaths(p, n) == [i \in 1..n |-> TempPath(p, i - 1)]

\* ini_path of create_android_ini
IniPath(dev) == Folder(dev) \o <<"bootloader", "ini", "android.ini">>

\* self.ANDROID_INI_TEMPLATE as file content
IniTemplate == << <<"android_ini_template", 0, 0>> >>

TaskIds == 1..Len(tasks)

DevicesOf(ts) == {ts[k].dev : k \in 1..Len(ts)} \ {""}

PathsOf(ts) ==
    {FilePath(ts[k]) : k \in 1..Len(ts)}
    \cup {TempPath(FilePath(ts[k]), i) : k \in 1..Len(ts), i \in 0..(MaxConn - 1)}
    \cup {IniPath(d) : d \in DevicesOf(ts)}

----------------------------------------------------------------------------
(* The remote servers *)

\* the size of the resource behind each url: one byte more than the threshold
\* plus ExtraBytes, exactly the threshold, or a few bytes
RemoteSize(url) ==
    CASE url \in {"linux-a", "linux-a2", "lineage-tv"} -> MultiThreshold + ExtraBytes
      [] url \in {"linux-b"} -> MultiThreshold + ExtraBytes + 1
      [] url \in {"linux-exact"} -> MultiThreshold
      [] OTHER -> 2

\* urls of a mirror that is down: every request to it fails
DownUrls == {"down-s2", "down-s3", "down-s4"}

\* what the server's answer to HEAD may carry: Content-Length (0 stands for a
\* missing header, line 1129) and Accept-Ranges ('none' for a missing header,
\* line 1130)
ContentLengths(url) ==
    IF url \in {"linux-a", "linux-b", "linux-exact"} THEN {0, RemoteSize(url)}
    ELSE IF url \in DownUrls THEN {}
    ELSE {RemoteSize(url)}

AcceptRanges(url) ==
    IF url \in {"linux-a", "linux-b", "linux-exact", "lineage-tv"}
    THEN {"bytes", "none"} ELSE {"bytes"}

WholeBody(url) == << <<url, 0, RemoteSize(url) - 1>> >>

\* the bodies a server that honours ranges may send for "Range: bytes=lo-hi";
\* an empty set is an error status (416), which raise_for_status raises on.
\* A range whose end precedes its start is not a valid range: servers either
\* ignore the header and send the whole body or reject the request.
RangeBodies(url, lo, hi) ==
    IF lo > hi THEN {WholeBody(url)}
    ELSE IF lo >= RemoteSize(url) THEN {}
    ELSE { << <<url, lo, IF hi < RemoteSize(url) THEN hi ELSE RemoteSize(url) - 1>> >> }

----------------------------------------------------------------------------
(* download_file_worker and download_segment *)

\* the state of one download_file_worker call before the pool submits it
NewWorker ==
    [pc |-> "unsubmitted",
     total_size |-> 0,            \* total_size (line 1129, 1208)
     accept_ranges |-> "none",    \* accept_ranges (line 1130)
     multi |-> FALSE,             \* use_multiconnection
     segment_size |-> 0,          \* segment_size (line 1146)
     nrange |-> 0,                \* length of range(self.download_connections), line 1151
     segments |-> <<>>,           \* segments: <<start, end>> in index order
     progress_dict |-> 0,         \* progress_dict has the keys 0 .. progress_dict-1
     width |-> 0,                 \* max_workers of the segment pool
     futs |-> <<>>,               \* futures of the segment pool, one per segment
     out |-> NoHandle,            \* outfile / f: the open destination file
     ci |-> 0,                    \* position in temp_files of the combine loop
     runs |-> 0]                  \* how often a thread of the pool started this call

Terminal == {"finished", "failed", "raised"}

Set(t, r) == w' = [w EXCEPT ![t] = r]
Goto(t, pc) == Set(t, [w[t] EXCEPT !.pc = pc])

\* an executor that starts a thread for every queued task
WorkerPick_NoLimit(t) ==
    /\ w[t].pc = "queued"
    /\ \A s \in 1..(t - 1) : w[s].pc # "queued"
    /\ Set(t, [w[t] EXCEPT !.pc = "start", !.runs = @ + 1])
    /\ UNCHANGED <<shell_vars, plan_vars, scan_vars, download_connections, completed_downloads, download_lock, tasks,
                   android_device_types, pool, ini_left, ini_runs, reported, fs, saves>>

\* the executor hands queued tasks to its (at most PoolWidth) threads in
\* submission order
WorkerPick(t) ==
    /\ w[t].pc = "queued"
    /\ \A s \in 1..(t - 1) : w[s].pc # "queued"
    /\ Cardinality({s \in TaskIds : w[s].pc \notin Terminal \cup {"queued", "unsubmitted"}})
         < PoolWidth
    /\ Set(t, [w[t] EXCEPT !.pc = "start", !.runs = @ + 1])
    /\ UNCHANGED <<shell_vars, plan_vars, scan_vars, download_connections, completed_downloads, download_lock, tasks,
                   android_device_types, pool, ini_left, ini_runs, reported, fs, saves>>

\* lines 1077-1122: the "Starting" message reads the counter under the lock; the
\* path is determined and its directory made. os.makedirs stands outside the
\* try block: an OSError leaves the worker and ends up in the task's future
WStart(t) ==
    /\ w[t].pc = "start"
    /\ download_lock = 0
    /\ \/ Goto(t, "probe")
       \/ MakesDirs(tasks[t]) /\ Goto(t, "raised")
    /\ UNCHANGED <<shell_vars, plan_vars, scan_vars, download_connections, completed_downloads, download_lock, tasks,
                   android_device_types, pool, ini_left, ini_runs, reported, fs, saves>>

\* UseMulti with a threshold that is not strict
UseMulti_AtLeast(accept_ranges, total_size, connections) ==
    /\ accept_ranges # "none"
    /\ total_size >= MultiThreshold
    /\ connections > 1

\* use_multiconnection, lines 1136-1140
UseMulti(accept_ranges, total_size, connections) ==
    /\ accept_ranges # "none"
    /\ total_size > MultiThreshold
    /\ connections > 1

\* lines 1126-1142: the HEAD request. Content-Length missing gives size 0,
\* Accept-Ranges missing gives 'none'
WProbe(t) ==
    /\ w[t].pc = "probe"
    /\ \/ Goto(t, "except_req")
       \/ \E size \in ContentLengths(tasks[t].url),
             accept_ranges \in AcceptRanges(tasks[t].url) :
            LET m == UseMulti(accept_ranges, size, download_connections) IN
            Set(t, [w[t] EXCEPT !.total_size = size, !.accept_ranges = accept_ranges,
                                !.multi = m,
                                !.pc = IF m THEN "segsize" ELSE "get"])
    /\ UNCHANGED <<shell_vars, plan_vars, scan_vars, download_connections, completed_downloads, download_lock, tasks,
                   android_device_types, pool, ini_left, ini_runs, reported, fs, saves>>

\* line 1146
WSegSize(t) ==
    /\ w[t].pc = "segsize"
    /\ Set(t, [w[t] EXCEPT !.segment_size = w[t].total_size \div download_connections,
                           !.pc = "range"])
    /\ UNCHANGED <<shell_vars, plan_vars, scan_vars, download_connections, completed_downloads, download_lock, tasks,
                   android_device_types, pool, ini_left, ini_runs, reported, fs, saves>>

\* line 1151: range(self.download_connections) is evaluated once
WRange(t) ==
    /\ w[t].pc = "range"
    /\ Set(t, [w[t] EXCEPT !.nrange = download_connections, !.segments = <<>>,
                           !.pc = IF download_connections > 0 THEN "mkseg" ELSE "progress"])
    /\ UNCHANGED <<shell_vars, plan_vars, scan_vars, download_connections, completed_downloads, download_lock, tasks,
                   android_device_types, pool, ini_left, ini_runs, reported, fs, saves>>

\* start and end of segment i, lines 1152-1154
SegmentRange(i, segment_size, total_size, connections) ==
    <<i * segment_size,
      IF i < connections - 1 THEN i * segment_size + segment_size - 1 ELSE total_size - 1>>

\* lines 1152-1157: one iteration of the loop, i = Len(segments)
WMkSeg(t) ==
    /\ w[t].pc = "mkseg"
    /\ LET i == Len(w[t].segments)
           segs == Append(w[t].segments,
                     SegmentRange(i, w[t].segment_size, w[t].total_size, download_connections))
       IN  Set(t, [w[t] EXCEPT !.segments = segs,
                               !.pc = IF Len(segs) = w[t].nrange THEN "progress" ELSE "mkseg"])
    /\ UNCHANGED <<shell_vars, plan_vars, scan_vars, download_connections, completed_downloads, download_lock, tasks,
                   android_device_types, pool, ini_left, ini_runs, reported, fs, saves>>

\* line 1160
WProgress(t) ==
    /\ w[t].pc = "progress"
    /\ Set(t, [w[t] EXCEPT !.progress_dict = download_connections, !.pc = "submit"])
    /\ UNCHANGED <<shell_vars, plan_vars, scan_vars, download_connections, completed_downloads, download_lock, tasks,
                   android_device_types, pool, ini_left, ini_runs, reported, fs, saves>>

\* lines 1163-1171: the segment pool is made and every segment submitted
WSubmit(t) ==
    /\ w[t].pc = "submit"
    /\ Set(t, [w[t] EXCEPT !.width = download_connections,
                           !.futs = [i \in 1..Len(w[t].segments) |->
                                       [st |-> "pending", h |-> NoHandle, body |-> <<>>,
                                        gets |-> 0]],
                           !.pc = "monitor"])
    /\ UNCHANGED <<shell_vars, plan_vars, scan_vars, download_connections, completed_downloads, download_lock, tasks,
                   android_device_types, pool, ini_left, ini_runs, reported, fs, saves>>

SegDone(f) == f.st \in {"done", "req", "exc"}

\* download_segment, lines 1061-1066: the segment pool starts segments in
\* submission order on at most width threads; the ranged GET, then open(temp_file, 'wb').
\* i is the position in segments, segment_num is i - 1
SegStart(t, i) ==
    /\ w[t].pc = "monitor"
    /\ i \in 1..Len(w[t].futs)
    /\ w[t].futs[i].st = "pending"
    /\ \A j \in 1..(i - 1) : w[t].futs[j].st # "pending"
    /\ Cardinality({j \in 1..Len(w[t].futs) : w[t].futs[j].st = "open"}) < w[t].width
    /\ LET temp == TempPath(FilePath(tasks[t]), i - 1) IN
       \/ /\ Set(t, [w[t] EXCEPT !.futs[i].st = "req", !.futs[i].gets = @ + 1])
          /\ fs' = fs
       \/ \E body \in RangeBodies(tasks[t].url, w[t].segments[i][1], w[t].segments[i][2]) :
            \/ /\ Set(t, [w[t] EXCEPT !.futs[i].st = "exc", !.futs[i].gets = @ + 1])
               /\ fs' = fs
            \/ /\ Set(t, [w[t] EXCEPT !.futs[i] =
                            [st |-> "open", h |-> Handle(fs, temp), body |-> body,
                             gets |-> @.gets + 1]])
               /\ fs' = OpenWB(fs, temp)
    /\ UNCHANGED <<shell_vars, plan_vars, scan_vars, download_connections, completed_downloads, download_lock, tasks,
                   android_device_types, pool, ini_left, ini_runs, reported, saves>>

\* download_segment, lines 1067-1073: the body is written; progress_dict[segment_num]
\* raises KeyError when segment_num is no key
SegWrite(t, i) ==
    /\ w[t].pc = "monitor"
    /\ i \in 1..Len(w[t].futs)
    /\ w[t].futs[i].st = "open"
    /\ \/ /\ Set(t, [w[t] EXCEPT !.futs[i].st = "req"])
          /\ fs' = fs
       \/ /\ Set(t, [w[t] EXCEPT !.futs[i].st = "exc"])
          /\ fs' = fs
       \/ /\ fs' = WriteH(fs, w[t].futs[i].h, w[t].futs[i].body)
          /\ Set(t, [w[t] EXCEPT !.futs[i].st =
                       IF i - 1 < w[t].progress_dict THEN "done" ELSE "exc"])
    /\ UNCHANGED <<shell_vars, plan_vars, scan_vars, download_connections, completed_downloads, download_lock, tasks,
                   android_device_types, pool, ini_left, ini_runs, reported, saves>>

\* the first failed future in index order, 0 when none failed
FirstFailed(futs) ==
    IF \E j \in 1..Len(futs) : futs[j].st \in {"req", "exc"}
    THEN CHOOSE j \in 1..Len(futs) :
           /\ futs[j].st \in {"req", "exc"}
           /\ \A k \in 1..(j - 1) : futs[k].st \notin {"req", "exc"}
    ELSE 0

\* WAwait that leaves the monitor loop when the first future is done
WAwait_Early(t) ==
    /\ w[t].pc = "monitor"
    /\ \E j \in 1..Len(w[t].futs) : SegDone(w[t].futs[j])
    /\ LET k == FirstFailed(w[t].futs) IN
       Goto(t, IF k = 0 THEN "combine"
               ELSE IF w[t].futs[k].st = "req" THEN "except_req" ELSE "except_exc")
    /\ UNCHANGED <<shell_vars, plan_vars, scan_vars, download_connections, completed_downloads, download_lock, tasks,
                   android_device_types, pool, ini_left, ini_runs, reported, fs, saves>>

\* WAwait that acts on a failed future as soon as there is one
WAwait_FirstFailure(t) ==
    /\ w[t].pc = "monitor"
    /\ \/ \A j \in 1..Len(w[t].futs) : SegDone(w[t].futs[j])
       \/ FirstFailed(w[t].futs) # 0
    /\ LET k == FirstFailed(w[t].futs) IN
       Goto(t, IF k = 0 THEN "combine"
               ELSE IF w[t].futs[k].st = "req" THEN "except_req" ELSE "except_exc")
    /\ UNCHANGED <<shell_vars, plan_vars, scan_vars, download_connections, completed_downloads, download_lock, tasks,
                   android_device_types, pool, ini_left, ini_runs, reported, fs, saves>>

\* a monitor loop that goes on until every segment has succeeded
WAwait_UntilSuccess(t) ==
    /\ w[t].pc = "monitor"
    /\ \A j \in 1..Len(w[t].futs) : w[t].futs[j].st = "done"
    /\ Goto(t, "combine")
    /\ UNCHANGED <<shell_vars, plan_vars, scan_vars, download_connections, completed_downloads, download_lock, tasks,
                   android_device_types, pool, ini_left, ini_runs, reported, fs, saves>>

\* lines 1173-1189: the monitor loop ends when every future is done; then
\* future.result() re-raises the first failure in index order
WAwait(t) ==
    /\ w[t].pc = "monitor"
    /\ \A j \in 1..Len(w[t].futs) : SegDone(w[t].futs[j])
    /\ LET k == FirstFailed(w[t].futs) IN
       Goto(t, IF k = 0 THEN "combine"
               ELSE IF w[t].futs[k].st = "req" THEN "except_req" ELSE "except_exc")
    /\ UNCHANGED <<shell_vars, plan_vars, scan_vars, download_connections, completed_downloads, download_lock, tasks,
                   android_device_types, pool, ini_left, ini_runs, reported, fs, saves>>

\* lines 1192-1193: open(filepath, 'wb')
WCombineOpen(t) ==
    /\ w[t].pc = "combine"
    /\ \/ /\ Goto(t, "except_exc")
          /\ fs' = fs
       \/ /\ Set(t, [w[t] EXCEPT !.out = Handle(fs, FilePath(tasks[t])), !.ci = 1,
                                 !.pc = IF Len(w[t].segments) = 0 THEN "lock" ELSE "copy"])
          /\ fs' = OpenWB(fs, FilePath(tasks[t]))
    /\ UNCHANGED <<shell_vars, plan_vars, scan_vars, download_connections, completed_downloads, download_lock, tasks,
                   android_device_types, pool, ini_left, ini_runs, reported, saves>>

\* lines 1194-1196: open(temp_file, 'rb') and shutil.copyfileobj
WCopy(t) ==
    /\ w[t].pc = "copy"
    /\ LET temp == TempPath(FilePath(tasks[t]), w[t].ci - 1) IN
       \/ /\ Goto(t, "except_exc")
          /\ fs' = fs
       \/ /\ fs[temp].ex
          /\ fs' = WriteH(fs, w[t].out, fs[temp].data)
          /\ Set(t, [w[t] EXCEPT !.out = Advance(@, fs[temp].data), !.pc = "remove"])
    /\ UNCHANGED <<shell_vars, plan_vars, scan_vars, download_connections, completed_downloads, download_lock, tasks,
                   android_device_types, pool, ini_left, ini_runs, reported, saves>>

\* WRemove that leaves the temp file on disk
WRemove_Keep(t) ==
    /\ w[t].pc = "remove"
    /\ fs' = fs
    /\ Set(t, [w[t] EXCEPT !.ci = @ + 1,
                           !.pc = IF w[t].ci = Len(w[t].segments) THEN "lock" ELSE "copy"])
    /\ UNCHANGED <<shell_vars, plan_vars, scan_vars, download_connections, completed_downloads, download_lock, tasks,
                   android_device_types, pool, ini_left, ini_runs, reported, saves>>

\* line 1197: os.remove(temp_file); after the last one the destination is closed
WRemove(t) ==
    /\ w[t].pc = "remove"
    /\ LET temp == TempPath(FilePath(tasks[t]), w[t].ci - 1) IN
       IF fs[temp].ex
       THEN /\ fs' = Remove(fs, temp)
            /\ Set(t, [w[t] EXCEPT !.ci = @ + 1,
                                   !.pc = IF w[t].ci = Len(w[t].segments)
                                          THEN "lock" ELSE "copy"])
       ELSE /\ fs' = fs
            /\ Goto(t, "except_exc")
    /\ UNCHANGED <<shell_vars, plan_vars, scan_vars, download_connections, completed_downloads, download_lock, tasks,
                   android_device_types, pool, ini_left, ini_runs, reported, saves>>

\* lines 1200-1212: the plain GET, then open(filepath, 'wb')
WGet(t) ==
    /\ w[t].pc = "get"
    /\ \/ /\ Goto(t, "except_req")
          /\ fs' = fs
       \/ /\ Goto(t, "except_exc")
          /\ fs' = fs
       \/ \E length \in ContentLengths(tasks[t].url) :
          /\ Set(t, [w[t] EXCEPT !.total_size = IF @ = 0 THEN length ELSE @,
                                 !.out = Handle(fs, FilePath(tasks[t])),
                                 !.pc = "write"])
          /\ fs' = OpenWB(fs, FilePath(tasks[t]))
    /\ UNCHANGED <<shell_vars, plan_vars, scan_vars, download_connections, completed_downloads, download_lock, tasks,
                   android_device_types, pool, ini_left, ini_runs, reported, saves>>

\* lines 1213-1225: the body is streamed into the destination
WWrite(t) ==
    /\ w[t].pc = "write"
    /\ \/ \E part \in {<<>>, Take(WholeBody(tasks[t].url), 1)} :
            \* the stream breaks (RequestException) or f.write fails (OSError)
            \* after the chunks before it were written
            /\ fs' = WriteH(fs, w[t].out, part)
            /\ \/ Set(t, [w[t] EXCEPT !.out = Advance(@, part), !.pc = "except_req"])
               \/ Set(t, [w[t] EXCEPT !.out = Advance(@, part), !.pc = "except_exc"])
       \/ /\ fs' = WriteH(fs, w[t].out, WholeBody(tasks[t].url))
          /\ Set(t, [w[t] EXCEPT !.out = Advance(@, WholeBody(tasks[t].url)), !.pc = "lock"])
    /\ UNCHANGED <<shell_vars, plan_vars, scan_vars, download_connections, completed_downloads, download_lock, tasks,
                   android_device_types, pool, ini_left, ini_runs, reported, saves>>

\* line 1228: with self.download_lock
WLock(t) ==
    /\ w[t].pc = "lock"
    /\ download_lock = 0
    /\ download_lock' = t
    /\ Goto(t, "count")
    /\ UNCHANGED <<shell_vars, plan_vars, scan_vars, download_connections, completed_downloads, tasks,
                   android_device_types, pool, ini_left, ini_runs, reported, fs, saves>>

\* lines 1229-1232: the counter is incremented and the lock released
WCount(t) ==
    /\ w[t].pc = "count"
    /\ completed_downloads' = completed_downloads + 1
    /\ download_lock' = 0
    /\ Goto(t, "finished")
    /\ UNCHANGED <<shell_vars, plan_vars, scan_vars, download_connections, tasks,
                   android_device_types, pool, ini_left, ini_runs, reported, fs, saves>>

\* WExceptReq that hands the task back to the pool after the cleanup
WExceptReq_Retry(t) ==
    /\ w[t].pc = "except_req"
    /\ fs' = TryRemoveAll(TryRemove(fs, FilePath(tasks[t])),
                          TempPaths(FilePath(tasks[t]), download_connections))
    /\ Goto(t, "queued")
    /\ UNCHANGED <<shell_vars, plan_vars, scan_vars, download_connections, completed_downloads, download_lock, tasks,
                   android_device_types, pool, ini_left, ini_runs, reported, saves>>

\* WExceptReq that counts the failed task as completed
WExceptReq_Counting(t) ==
    /\ w[t].pc = "except_req"
    /\ fs' = TryRemoveAll(TryRemove(fs, FilePath(tasks[t])),
                          TempPaths(FilePath(tasks[t]), download_connections))
    /\ completed_downloads' = completed_downloads + 1
    /\ Goto(t, "failed")
    /\ UNCHANGED <<shell_vars, plan_vars, scan_vars, download_connections, download_lock, tasks,
                   android_device_types, pool, ini_left, ini_runs, reported, saves>>

\* lines 1234-1245: except requests.RequestException
WExceptReq(t) ==
    /\ w[t].pc = "except_req"
    /\ fs' = TryRemoveAll(TryRemove(fs, FilePath(tasks[t])),
                          TempPaths(FilePath(tasks[t]), download_connections))
    /\ Goto(t, "failed")
    /\ UNCHANGED <<shell_vars, plan_vars, scan_vars, download_connections, completed_downloads, download_lock, tasks,
                   android_device_types, pool, ini_left, ini_runs, reported, saves>>

\* lines 1246-1253: except Exception
WExceptExc(t) ==
    /\ w[t].pc = "except_exc"
    /\ fs' = TryRemoveAll(fs, TempPaths(FilePath(tasks[t]), download_connections))
    /\ Goto(t, "failed")
    /\ UNCHANGED <<shell_vars, plan_vars, scan_vars, download_connections, completed_downloads, download_lock, tasks,
                   android_device_types, pool, ini_left, ini_runs, reported, saves>>

----------------------------------------------------------------------------
(* download_files_pool, create_android_ini, save_download_settings *)

\* lines 1034-1041: the device types the pool will write android.ini for
PoolDeviceTypes(ts) ==
    {ts[k].dev : k \in {j \in 1..Len(ts) :
        /\ ts[j].dist \in {"Android", "Android-Build", "Android-Extras"}
        /\ ts[j].dev # ""}}

\* PoolStart without the reset of line 1032
PoolStart_NoReset ==
    /\ pool = "start"
    /\ completed_downloads' = completed_downloads
    /\ android_device_types' = PoolDeviceTypes(tasks)
    /\ w' = [t \in TaskIds |-> [w[t] EXCEPT !.pc = "queued"]]
    /\ pool' = "running"
    /\ UNCHANGED <<shell_vars, plan_vars, scan_vars, download_connections, download_lock, tasks,
                   ini_left, ini_runs, reported, fs, saves>>

\* lines 1031-1044: the counter is reset, the device types collected and every
\* task submitted to the executor
PoolStart ==
    /\ pool = "start"
    /\ completed_downloads' = 0
    /\ android_device_types' = PoolDeviceTypes(tasks)
    /\ w' = [t \in TaskIds |-> [w[t] EXCEPT !.pc = "queued"]]
    /\ pool' = "running"
    /\ UNCHANGED <<shell_vars, plan_vars, scan_vars, download_connections, download_lock, tasks,
                   ini_left, ini_runs, reported, fs, saves>>

\* PoolJoin with a future.result() that is not caught: the first task that
\* raised ends the wait
PoolJoin_AbortOnRaise ==
    /\ pool = "running"
    /\ \/ \A t \in TaskIds : w[t].pc \in Terminal
       \/ \E t \in TaskIds : w[t].pc = "raised"
    /\ pool' = "ini"
    /\ ini_left' = android_device_types
    /\ UNCHANGED <<shell_vars, plan_vars, scan_vars, download_connections, completed_downloads, download_lock, tasks,
                   android_device_types, ini_runs, reported, w, fs, saves>>

\* lines 1046-1050 and the end of the with block: every future.result() has
\* returned or raised (the exception is logged) and the executor has shut down
PoolJoin ==
    /\ pool = "running"
    /\ \A t \in TaskIds : w[t].pc \in Terminal
    /\ pool' = "ini"
    /\ ini_left' = android_device_types
    /\ UNCHANGED <<shell_vars, plan_vars, scan_vars, download_connections, completed_downloads, download_lock, tasks,
                   android_device_types, ini_runs, reported, w, fs, saves>>

\* CreateIni over a list of device types instead of a set: a device type
\* stays to be done after its descriptor is written
CreateIni_Repeat(d) ==
    /\ pool = "ini"
    /\ d \in ini_left
    /\ ini_runs[d] < 2
    /\ ini_left' = IF ini_runs[d] = 0 THEN ini_left ELSE ini_left \ {d}
    /\ ini_runs' = [ini_runs EXCEPT ![d] = @ + 1]
    /\ \/ fs' = [fs EXCEPT ![IniPath(d)] = [ex |-> TRUE, gen |-> @.gen, data |-> IniTemplate]]
       \/ fs' = fs
    /\ UNCHANGED <<shell_vars, plan_vars, scan_vars, download_connections, completed_downloads, download_lock, tasks,
                   android_device_types, pool, reported, w, saves>>

\* CreateIni without the except clause of line 1289: the exception ends the
\* pool thread
CreateIni_Uncaught(d) ==
    /\ pool = "ini"
    /\ d \in ini_left
    /\ ini_left' = ini_left \ {d}
    /\ ini_runs' = [ini_runs EXCEPT ![d] = @ + 1]
    /\ \/ /\ fs' = [fs EXCEPT ![IniPath(d)] = [ex |-> TRUE, gen |-> @.gen, data |-> IniTemplate]]
          /\ pool' = pool
       \/ /\ fs' = fs
          /\ pool' = "raised"
    /\ UNCHANGED <<shell_vars, plan_vars, scan_vars, download_connections, completed_downloads, download_lock, tasks,
                   android_device_types, reported, w, saves>>

\* lines 1053-1054 and create_android_ini: the template is written, or the
\* exception of makedirs/open/write is caught and logged
CreateIni(d) ==
    /\ pool = "ini"
    /\ d \in ini_left
    /\ ini_left' = ini_left \ {d}
    /\ ini_runs' = [ini_runs EXCEPT ![d] = @ + 1]
    /\ \/ fs' = [fs EXCEPT ![IniPath(d)] = [ex |-> TRUE, gen |-> @.gen, data |-> IniTemplate]]
       \/ fs' = fs
    /\ UNCHANGED <<shell_vars, plan_vars, scan_vars, download_connections, completed_downloads, download_lock, tasks,
                   android_device_types, pool, reported, w, saves>>

\* lines 1056-1057, with reset_ui_after_download (lines 1292-1294) that the
\* main loop runs on its behalf
PoolReport ==
    /\ pool = "ini"
    /\ ini_left = {}
    /\ reported' = reported + 1
    /\ pool' = "done"
    /\ ui_state' = Buttons("normal")
    /\ UNCHANGED <<tree, download_dir, messagebox, loop_vars, throttle_vars, cache_vars,
                   plan_vars, scan_vars, download_connections, completed_downloads, download_lock, tasks,
                   android_device_types, ini_left, ini_runs, w, fs, saves>>

\* the connection counts the settings dialog offers (4, 8 and 16 in the
\* program: every one of them is more than 1)
ConnectionChoices == 2..MaxConn

\* save_download_settings, lines 437-441: the dialog stays usable during a run
SaveSettings ==
    /\ saves < MaxSaves
    /\ \E n \in ConnectionChoices \ {download_connections} : download_connections' = n
    /\ saves' = saves + 1
    /\ UNCHANGED <<shell_vars, plan_vars, scan_vars, completed_downloads, download_lock, tasks,
                   android_device_types, pool, ini_left, ini_runs, reported, w, fs>>

----------------------------------------------------------------------------
(* start_download_thread: the task planner *)

\* a tree row of the unified Android format as add_tree_item inserts it
\* (lines 810-814): its tags are (lineage_url, gapps_url, lineage_size,
\* gapps_size, device_type, build_files_json). build_files is the dict of the
\* build's files in its order, each entry [name, url, size]; a gapps_url of
\* None is the string "None" once it has been a Tk tag
UnifiedRow(name, lineage_url, lineage_size, gapps_url, gapps_size, device_type, build_files) ==
    [fmt |-> "unified", dist |-> "Android", name |-> name,
     lineage_url |-> lineage_url, lineage_size |-> lineage_size,
     gapps_url |-> gapps_url, gapps_size |-> gapps_size,
     device_type |-> device_type, build_files |-> build_files]

\* a tree row with fewer than six tags (lines 816-819 and old cache rows):
\* its tags are (file_url, size_bytes, device_type, build_files_json)
LegacyRow(dist, name, url, size, device_type, build_files) ==
    [fmt |-> "legacy", dist |-> dist, name |-> name, url |-> url, size |-> size,
     device_type |-> device_type, build_files |-> build_files]

BuildFile(name, url, size) == [name |-> name, url |-> url, size |-> size]

\* self.tree.item(item_id, "tags"), line 910: Tk keeps tags as a Tcl list and
\* hands every element back as a str, whatever was inserted
TkTag(v) == [py |-> "str", val |-> v]

\* int(x) if isinstance(x, str) else x, lines 920-921
IntOf(tag) == tag.val

\* Python's x == 0: a str never equals an int
PyEqZero(tag) == tag.py = "int" /\ tag.val = 0

\* file_name.startswith('lineage-')
StartsWithLineage(name) ==
    name \in {"lineage-tv.zip", "lineage-tab.zip", "lineage-a.zip", "lineage-b.zip",
              "lineage-c.zip"}

\* k.startswith('lineage-') and k.endswith('.zip'): of the names of the model,
\* every one that starts with 'lineage-' ends with '.zip'
IsLineageZip(name) == StartsWithLineage(name)

\* 'super_empty.img' in file_name
HasSuperEmpty(name) == name = "super_empty.img"

\* gapps_url.split('/')[-1], line 950
BaseName(url) ==
    CASE url = "gapps-tv" -> "gapps-tv.zip"
      [] url = "gapps-14-atv" -> "MindTheGapps-14-atv.zip"
      [] url = "gapps-14" -> "MindTheGapps-14.zip"
      [] OTHER -> url

\* line 942-943: the first key of build_files that is a lineage zip
RECURSIVE LineageFilename(_)
LineageFilename(build_files) ==
    IF build_files = <<>> THEN "lineage.zip"
    ELSE IF IsLineageZip(Head(build_files).name) THEN Head(build_files).name
    ELSE LineageFilename(Tail(build_files))

\* the planner's locals before the first row: tasks, the device types added
\* to android_device_types in the order of the add calls, android_build_files
PlanStart == [tasks |-> <<>>, adds |-> <<>>, files |-> <<>>]

AddTask(acc, url, name, dist, dev, path) ==
    [acc EXCEPT !.tasks = Append(@, Task(url, name, Len(@) + 1, 0, dist, dev, path))]

\* android_build_files[device_type] = build_files
SetFiles(acc, dev, build_files) ==
    [acc EXCEPT !.files = [d \in (DOMAIN @) \cup {dev} |->
                             IF d = dev THEN build_files ELSE @[d]]]

\* lines 916-953: one row of the unified format
PlanUnified(acc, r) ==
    LET lineage_size == IntOf(TkTag(r.lineage_size))
        gapps_size == IntOf(TkTag(r.gapps_size))
        a1 == [acc EXCEPT !.adds = Append(@, r.device_type)]
        a2 == IF r.build_files # <<>> THEN SetFiles(a1, r.device_type, r.build_files) ELSE a1
        a3 == AddTask(a2, r.lineage_url, LineageFilename(r.build_files), "Android",
                      r.device_type, <<>>)
    IN  IF lineage_size = 0 THEN acc
        ELSE IF r.gapps_url # "" /\ gapps_size > 0
             THEN AddTask(a3, r.gapps_url, BaseName(r.gapps_url), "GApps", r.device_type, <<>>)
             ELSE a3

\* lines 955-980: one row of the old format or a Linux row
PlanLegacy(acc, r) ==
    LET size_bytes == TkTag(r.size)
        tracked == r.dist \in {"Android", "GApps"} /\ r.device_type # ""
        a1 == IF tracked THEN [acc EXCEPT !.adds = Append(@, r.device_type)] ELSE acc
        a2 == IF tracked /\ r.dist = "Android" /\ r.build_files # <<>>
              THEN SetFiles(a1, r.device_type, r.build_files) ELSE a1
    IN  IF PyEqZero(size_bytes) THEN acc
        ELSE AddTask(a2, r.url, r.name, r.dist, r.device_type, <<>>)

\* lines 908-980: the loop over the selected rows
RECURSIVE PlanRows(_, _)
PlanRows(acc, rows) ==
    IF rows = <<>> THEN acc
    ELSE PlanRows(IF Head(rows).fmt = "unified" THEN PlanUnified(acc, Head(rows))
                  ELSE PlanLegacy(acc, Head(rows)),
                  Tail(rows))

\* lines 986-1001: the build files of one device type
RECURSIVE PlanBuildFiles(_, _, _)
PlanBuildFiles(acc, dev, build_files) ==
    IF build_files = <<>> THEN acc
    ELSE LET f == Head(build_files) IN
         PlanBuildFiles(IF StartsWithLineage(f.name) \/ HasSuperEmpty(f.name) THEN acc
                        ELSE AddTask(acc, f.url, f.name, "Android-Build", dev, <<>>),
                        dev, Tail(build_files))

\* lines 1003-1015: the static required files of one device type
RECURSIVE PlanExtras(_, _, _)
PlanExtras(acc, dev, required) ==
    IF required = <<>> THEN acc
    ELSE PlanExtras(AddTask(acc, Head(required).url, Head(required).name,
                            "Android-Extras", dev, Head(required).path),
                    dev, Tail(required))

\* lines 983-1015: the loop over android_device_types in the order devs
RECURSIVE PlanDevices(_, _, _)
PlanDevices(acc, devs, required) ==
    IF devs = <<>> THEN acc
    ELSE LET d == Head(devs)
             a1 == IF d \in DOMAIN acc.files THEN PlanBuildFiles(acc, d, acc.files[d])
                   ELSE acc
         IN  PlanDevices(PlanExtras(a1, d, required), Tail(devs), required)

\* a list of the add calls, visited entry by entry
DeviceOrders_PerEntry(adds) == {adds}

\* the orders in which "for device_type in android_device_types" can visit
\* the set that the add calls built: the order of a set of str is not fixed
DeviceOrders(adds) ==
    LET S == {adds[k] : k \in 1..Len(adds)} IN
    {o \in [1..Cardinality(S) -> S] : \A i, j \in 1..Cardinality(S) : o[i] = o[j] => i = j}

\* the list as the loops left it, every total the placeholder 0
Backfill_None(ts) == ts

\* lines 1022-1024: every task gets the length of the list as its total
Backfill(ts) ==
    [t \in 1..Len(ts) |-> [ts[t] EXCEPT !.total = Len(ts)]]

\* the task lists start_download_thread can build from the selected rows
Plans(rows, required) ==
    LET acc == PlanRows(PlanStart, rows) IN
    {Backfill(PlanDevices(acc, o, required).tasks) : o \in DeviceOrders(acc.adds)}

\* a directory check that lets every directory pass
DirValid_Always(dir) ==
    TRUE

\* line 895: the directory is set and os.path.exists finds it ("" is the
\* unset directory, "missing" a path that does not exist)
DirValid(dir) ==
    dir # "" /\ dir # "missing"

\* start_download_thread, lines 888-1027, when it starts the pool thread: the
\* buttons are disabled (line 900), the task list is built and the thread
\* started (line 1027)
StartDownload ==
    /\ pool = "idle"
    /\ ui_state.download_button = "normal"
    /\ selection # <<>>
    /\ DirValid(download_dir)
    /\ \E ts \in Plans(selection, ANDROID_REQUIRED_FILES) :
         /\ ts # <<>>
         /\ tasks' = ts
         /\ w' = [t \in 1..Len(ts) |-> NewWorker]
    /\ pool' = "start"
    /\ ui_state' = Buttons("disabled")
    /\ UNCHANGED <<tree, download_dir, messagebox, loop_vars, throttle_vars, cache_vars,
                   plan_vars, scan_vars, download_connections, completed_downloads,
                   download_lock, android_device_types, ini_left, ini_runs, reported,
                   fs, saves>>

\* lines 890-893: nothing is selected
StartDownloadNoSelection ==
    /\ pool = "idle"
    /\ ui_state.download_button = "normal"
    /\ selection = <<>>
    /\ messagebox' = "No Selection"
    /\ UNCHANGED <<tree, download_dir, ui_state, throttle_vars, cache_vars, loop_vars,
                   plan_vars, scan_vars, engine_vars>>

\* lines 895-897: the download directory does not pass the check
StartDownloadInvalidDir ==
    /\ pool = "idle"
    /\ ui_state.download_button = "normal"
    /\ selection # <<>>
    /\ ~DirValid(download_dir)
    /\ messagebox' = "Invalid Directory"
    /\ UNCHANGED <<tree, download_dir, ui_state, throttle_vars, cache_vars, loop_vars,
                   plan_vars, scan_vars, engine_vars>>

\* lines 899-900 and 1016-1019: the selected rows give no task; the buttons
\* were disabled and reset_ui_after_download enables them again
StartDownloadNoTasks ==
    /\ pool = "idle"
    /\ ui_state.download_button = "normal"
    /\ selection # <<>>
    /\ DirValid(download_dir)
    /\ <<>> \in Plans(selection, ANDROID_REQUIRED_FILES)
    /\ ui_state' = Buttons("normal")
    /\ UNCHANGED <<tree, download_dir, messagebox, loop_vars, throttle_vars, cache_vars,
                   plan_vars, scan_vars, engine_vars>>

----------------------------------------------------------------------------
(* Runs *)

\* the static Extras file of the model
RequiredFile(url, name) ==
    [url |-> url, name |-> name, path |-> <<"switchroot", "android", name>>]

OneRequired == << RequiredFile("extras-1", "bootlogo.bmp") >>

LinuxRow(url, name) == LegacyRow("Linux", name, url, RemoteSize(url), "", <<>>)

\* a unified row whose build has no file but the LineageOS zip
PlainAndroidRow(lineage_url, zip, gapps_url, gapps_size, dev) ==
    UnifiedRow("LineageOS", lineage_url, RemoteSize(lineage_url), gapps_url, gapps_size, dev,
               << BuildFile(zip, lineage_url, RemoteSize(lineage_url)) >>)

\* one run: the selected rows, the required files, the connection count it
\* starts with, the settings saves that may happen during it, and the counter
\* value a previous run left
Scenario(rows, required, conns, budget, prevs) ==
    {[rows |-> rows, required |-> required, conn |-> c, saves |-> MaxSaves - budget,
      prev |-> p, tree |-> rows, dir |-> "ok"] : c \in conns, p \in prevs}

\* the Download button pressed when no run can start: nothing selected, the
\* download directory unset or gone, or a row whose LineageOS zip has size 0
\* as the only selected row
NoRun ==
    LET one == CHOOSE sc \in Scenario(<< LinuxRow("linux-a", "a.7z") >>, OneRequired, {2}, 0, {1}) : TRUE
        zero == << UnifiedRow("LineageOS", "lineage-tv", 0, "None", 0, "TV", <<>>) >>
    IN  {[one EXCEPT !.rows = <<>>], [one EXCEPT !.dir = "missing"], [one EXCEPT !.dir = ""]}
        \cup Scenario(zero, <<>>, {2}, 0, {1})

Scenarios ==
    \* one Linux row
    Scenario(<< LinuxRow("linux-a", "a.7z") >>, OneRequired, 1..MaxConn, MaxSaves, {0, 1})
    \cup Scenario(<< LinuxRow("linux-b", "b.7z") >>, OneRequired, 2..MaxConn, MaxSaves, {0})
    \cup Scenario(<< LinuxRow("linux-exact", "e.7z") >>, OneRequired, {2}, 0, {0})
    \* two Linux rows of two sources that list a file of the same name
    \cup Scenario(<< LinuxRow("linux-a", "a.7z"), LinuxRow("linux-a2", "a.7z") >>,
                  OneRequired, {2}, 0, {0})
    \* one Android row with GApps
    \cup Scenario(<< PlainAndroidRow("lineage-tv", "lineage-tv.zip", "gapps-tv", 2, "TV") >>,
                  OneRequired, {2}, 0, {0})
    \* two Android rows of two device types, without GApps
    \cup Scenario(<< PlainAndroidRow("lineage-s-tv", "lineage-tv.zip", "None", 0, "TV"),
                     PlainAndroidRow("lineage-s-tab", "lineage-tab.zip", "None", 0, "Tablet") >>,
                  OneRequired, {2}, 0, {0, 1})
    \* a GApps row in the old cache format
    \cup Scenario(<< LegacyRow("GApps", "gapps-tv.zip", "gapps-tv", 2, "TV", <<>>) >>,
                  OneRequired, {1}, 0, {0})
    \* the same row when ANDROID_REQUIRED_FILES is the empty list
    \cup Scenario(<< LegacyRow("GApps", "gapps-tv.zip", "gapps-tv", 2, "TV", <<>>) >>,
                  <<>>, {1}, 0, {0})

\* the engine before a run: no task list, no pool thread
EngineIdle ==
    /\ tasks = <<>>
    /\ w = <<>>
    /\ download_lock = 0
    /\ android_device_types = {}
    /\ pool = "idle"
    /\ ini_left = {}
    /\ reported = 0

\* the files and device types a run of the selected rows can touch
Reach(rows, required) == CHOOSE ts \in Plans(rows, required) : TRUE

\* no worker streams a body and no progress was reported
ThrottleIdle ==
    /\ now = 0
    /\ last_update_time = 0
    /\ chunk = <<>>
    /\ progress_calls = <<>>

\* the start-up load of the scan cache is not looked at
CacheIdle ==
    /\ last_scan_file = [json |-> "absent"]
    /\ cache_data = [json |-> "None"]
    /\ startup = "done"

\* what add_tree_item inserts for a row: the row (values and tags) and the
\* byte count its size column was formatted from
TreeItem(row, size) == [row |-> row, size |-> size]

RowSize(r) == IF r.fmt = "unified" THEN r.lineage_size + r.gapps_size ELSE r.size

\* a tree that holds the rows rows
TreeOf(rows) == [k \in 1..Len(rows) |-> TreeItem(rows[k], RowSize(rows[k]))]

\* the window as a finished scan or cache load leaves it, nothing streaming
ShellReady(rows, dir) ==
    /\ tree = TreeOf(rows)
    /\ download_dir = dir
    /\ ui_state = Buttons("normal")
    /\ messagebox = "none"
    /\ after_calls = <<>>
    /\ second_pool = "none"
    /\ ThrottleIdle
    /\ CacheIdle

\* no catalog scan is running
ScanIdle ==
    /\ gapps_repo_list = <<>>
    /\ api_builds = <<>>
    /\ scan_at = [dev |-> 0, i |-> 0, pc |-> "idle", got |-> {}]
    /\ fetched_gapps_versions = <<>>
    /\ lookups = <<>>
    /\ repo_name = <<>>

Init ==
    \E sc \in Scenarios \cup NoRun :
    /\ selection = sc.rows
    /\ ANDROID_REQUIRED_FILES = sc.required
    /\ download_connections = sc.conn
    /\ saves = sc.saves
    /\ completed_downloads = sc.prev
    /\ EngineIdle
    /\ ini_runs = [d \in DevicesOf(Reach(sc.rows, sc.required)) |-> 0]
    /\ fs = [p \in PathsOf(Reach(sc.rows, sc.required)) |-> NoFile]
    /\ ScanIdle
    /\ ShellReady(sc.tree, sc.dir)

----------------------------------------------------------------------------
(* The planner over many selections *)

\* longest selection of PlanSpec
MaxSelected == 2

\* the build files of three builds; two builds of TV list a boot.img each, under
\* its own url, and one lists an image of size 0
FilesA ==
    << BuildFile("lineage-a.zip", "lineage-a", 7), BuildFile("boot.img", "boot-a", 5),
       BuildFile("super_empty.img", "super-a", 1), BuildFile("nx-plat.dtimg", "dtimg-a", 0) >>
FilesB ==
    << BuildFile("lineage-b.zip", "lineage-b", 8), BuildFile("boot.img", "boot-b", 5) >>
FilesC ==
    << BuildFile("lineage-c.zip", "lineage-c", 9), BuildFile("bl31.bin", "bl31-c", 4) >>

\* rows a scan or the cache can put into the tree
PlanRowSet ==
    { LegacyRow("Linux", "a.7z", "linux-a", 1000, "", <<>>),
      \* the HEAD request of the scan failed: size 0 (lines 624-627)
      LegacyRow("Linux", "z.7z", "linux-z", 0, "", <<>>),
      UnifiedRow("LineageOS A + MindTheGapps", "lineage-a", 7, "gapps-14-atv", 3, "TV", FilesA),
      UnifiedRow("LineageOS B + MindTheGapps", "lineage-b", 8, "gapps-14-atv", 3, "TV", FilesB),
      \* the API reports size 0 for the LineageOS zip
      UnifiedRow("LineageOS Z + MindTheGapps", "lineage-z", 0, "gapps-14-atv", 3, "TV", <<>>),
      \* no GApps found
      UnifiedRow("LineageOS C (GApps not available)", "lineage-c", 9, "None", 0, "Tablet", FilesC),
      \* rows of the old cache format
      LegacyRow("GApps", "gapps-tv.zip", "gapps-tv", 3, "TV", <<>>),
      LegacyRow("Android", "lineage-b.zip", "lineage-b", 8, "TV", FilesB) }

TwoRequired ==
    << RequiredFile("extras-1", "bootlogo.bmp"), RequiredFile("extras-2", "icon.bmp") >>

\* the selections of at most MaxSelected distinct rows
Selections ==
    UNION {{sel \in [1..n -> PlanRowSet] : \A i, j \in 1..n : sel[i] = sel[j] => i = j} :
             n \in 1..MaxSelected}

PlanInit ==
    /\ selection \in Selections
    /\ ANDROID_REQUIRED_FILES \in {<<>>, TwoRequired}
    /\ download_connections = 2
    /\ saves = MaxSaves
    /\ completed_downloads = 0
    /\ EngineIdle
    /\ ini_runs = [d \in DevicesOf(Reach(selection, ANDROID_REQUIRED_FILES)) |-> 0]
    /\ fs = [p \in PathsOf(Reach(selection, ANDROID_REQUIRED_FILES)) |-> NoFile]
    /\ ScanIdle
    /\ ShellReady(selection, "ok")

PlanNext == StartDownload

PlanSpec == PlanInit /\ [][PlanNext]_vars

----------------------------------------------------------------------------
(* The scan cache at start-up: load_last_scan and load_cached_scan.  Times
   are in seconds. *)

\* 24 hours, line 73
CacheMaxAge == 86400

\* time.time() at start-up
StartupTime == 1000000

\* most entries of a stored builds list
MaxCached == 2

\* JSON values where a number is expected: a number, a string, null, or the
\* key is missing
Num(v) == [is |-> "number", v |-> v]
NotNum(kind) == [is |-> kind, v |-> 0]

\* the ages of the stored timestamp: 1 h, a second less than 24 h, 24 h,
\* 25 h, and a timestamp an hour ahead of the clock
Ages == {3600, CacheMaxAge - 1, CacheMaxAge, 90000, 0 - 3600}

Timestamps == {Num(StartupTime - age) : age \in Ages}
                \cup {NotNum("string"), NotNum("null"), NotNum("missing")}

\* an entry of the builds list: a list of the four values and the tags of a
\* row as save_scan_cache wrote it, a list of fewer than four items, or a
\* value that is no list
Entry(kind, row) == [is |-> kind, row |-> row]
CachedRows ==
    { LegacyRow("Linux", "a.7z", "linux-a", 1000, "", <<>>),
      UnifiedRow("LineageOS B + MindTheGapps", "lineage-b", 8, "gapps-14-atv", 3, "TV", FilesB) }
Entries ==
    {Entry("list", r) : r \in CachedRows}
        \cup {Entry("short list", <<>>), Entry("number", <<>>)}

\* the value under 'builds'
BuildsList(items) == [is |-> "list", items |-> items]
NotList(kind) == [is |-> kind, items |-> <<>>]
BuildsValues ==
    {BuildsList(items) : items \in UNION {[1..n -> Entries] : n \in 0..MaxCached}}
        \cup {NotList("number"), NotList("missing")}

\* what LAST_SCAN_FILE can hold
Document(scan_timestamp, builds) ==
    [json |-> "dict", scan_timestamp |-> scan_timestamp, builds |-> builds]
Documents ==
    {[json |-> "absent"], [json |-> "unparsable"], [json |-> "list"]}
        \cup {Document(ts, b) : ts \in Timestamps, b \in BuildsValues}

\* age <= 86400
Fresh_Inclusive(age) ==
    age <= CacheMaxAge

\* age < 86400, line 73
Fresh(age) ==
    age < CacheMaxAge

\* load_last_scan, lines 64-79: a missing file gives None; json.load of an
\* unparsable file, data.get on a value that is no dict and the subtraction
\* of a value that is no number raise, which is caught and gives None
load_last_scan(file, time) ==
    IF file.json # "dict" THEN [json |-> "None"]
    ELSE LET scan_time == IF file.scan_timestamp.is = "missing" THEN Num(0)
                          ELSE file.scan_timestamp
         IN  IF scan_time.is # "number" THEN [json |-> "None"]
             ELSE IF Fresh(time - scan_time.v) THEN file
             ELSE [json |-> "None"]

\* __init__, line 169, and load_cached_scan, line 832
LoadLastScan ==
    /\ startup = "init"
    /\ cache_data' = load_last_scan(last_scan_file, now)
    /\ startup' = "loaded"
    /\ UNCHANGED <<engine_vars, plan_vars, scan_vars, tree, download_dir, ui_state,
                   messagebox, loop_vars, throttle_vars, last_scan_file>>

\* the rows of the list entries that have four items or more, in order
RECURSIVE CachedItems(_)
CachedItems(items) ==
    IF items = <<>> THEN <<>>
    ELSE IF Head(items).is = "list"
         THEN <<TreeItem(Head(items).row, RowSize(Head(items).row))>> \o CachedItems(Tail(items))
         ELSE CachedItems(Tail(items))

\* load_cached_scan, lines 833-866.  A builds value that is a number is one
\* other than 0.  len(builds) of a number and len(build) of a number raise
\* TypeError, which nothing between here and the main
\* program catches; rows inserted before the exception stay in the tree
LoadCachedScan ==
    /\ startup = "loaded"
    /\ IF cache_data.json # "dict"
       THEN startup' = "done" /\ UNCHANGED <<tree, ui_state>>
       ELSE LET builds == IF cache_data.builds.is = "missing" THEN BuildsList(<<>>)
                          ELSE cache_data.builds
                bad == {k \in 1..Len(builds.items) : builds.items[k].is = "number"}
                upto == IF bad = {} THEN Len(builds.items)
                        ELSE (CHOOSE k \in bad : \A j \in bad : k <= j) - 1
            IN  IF builds.is = "number"
                THEN startup' = "raised" /\ UNCHANGED <<tree, ui_state>>
                ELSE IF builds.items = <<>>
                THEN startup' = "done" /\ UNCHANGED <<tree, ui_state>>
                ELSE /\ tree' = tree \o CachedItems(SubSeq(builds.items, 1, upto))
                     /\ IF bad = {}
                        THEN /\ ui_state' = [ui_state EXCEPT !.download_button = "normal"]
                             /\ startup' = "done"
                        ELSE /\ ui_state' = ui_state
                             /\ startup' = "raised"
    /\ UNCHANGED <<engine_vars, plan_vars, scan_vars, download_dir, messagebox, loop_vars,
                   throttle_vars, last_scan_file, cache_data>>

\* the window after create_widgets (the download button starts disabled,
\* line 198) and before line 169
CacheInit ==
    /\ selection = <<>>
    /\ ANDROID_REQUIRED_FILES = <<>>
    /\ download_connections = 2
    /\ saves = MaxSaves
    /\ completed_downloads = 0
    /\ EngineIdle
    /\ ini_runs = <<>>
    /\ fs = <<>>
    /\ ScanIdle
    /\ tree = <<>>
    /\ download_dir = "ok"
    /\ ui_state = [scan_button |-> "normal", download_button |-> "disabled"]
    /\ messagebox = "none"
    /\ after_calls = <<>>
    /\ second_pool = "none"
    /\ now = StartupTime
    /\ last_update_time = 0
    /\ chunk = <<>>
    /\ progress_calls = <<>>
    /\ last_scan_file \in Documents
    /\ cache_data = [json |-> "None"]
    /\ startup = "init"

CacheNext ==
    \/ LoadLastScan
    \/ LoadCachedScan

CacheSpec == CacheInit /\ [][CacheNext]_vars

----------------------------------------------------------------------------
(* The catalog through the cache: add_tree_item, save_scan_cache, a new start
   of the program, load_last_scan and load_cached_scan, with the rows as the
   tuples of Python values the code passes around *)

\* Python values: a str is TkTag(v) (the str of a decimal number has the
\* number as val, a JSON text has the list of the files it encodes, "" as a
\* JSON text has the empty list), an int, None, and the dict of a build's files
PyInt(n) == [py |-> "int", val |-> n]
PyNone == [py |-> "NoneType", val |-> "None"]
PyDict(build_files) == [py |-> "dict", val |-> build_files]

\* format_size, lines 1299-1307, as the text of the number of bytes
format_size(n) == TkTag(n)

\* item_data of scan_linux_builds, line 632
LinuxItem(name, file_name, file_url, size_bytes) ==
    <<TkTag("Linux"), TkTag(name), TkTag(file_name), format_size(size_bytes),
      TkTag(file_url), PyInt(size_bytes)>>

\* item_data of scan_android_builds, lines 771-782; combined_size as in lines
\* 757-762
AndroidItem(distro_display, file_display, lineage_zip_url, lineage_zip_size, build_files, gapps_url, gapps_size, device_type) ==
    <<TkTag("Android"), TkTag(distro_display), TkTag(file_display),
      format_size(IF gapps_url.py = "str" THEN lineage_zip_size + gapps_size
                  ELSE lineage_zip_size),
      TkTag(lineage_zip_url), PyInt(lineage_zip_size), PyDict(build_files),
      gapps_url, PyInt(gapps_size), TkTag(device_type)>>

\* the item_data tuples of the scans of the model: Linux files of 1000 and of
\* 0 bytes, builds with and without a companion, with a lineage zip of 0
\* bytes, and with an empty dict of files
FreshItems ==
    { LinuxItem("linux-a", "a.7z", "a.7z", 1000),
      LinuxItem("linux-a", "z.7z", "z.7z", 0),
      AndroidItem("Android TV", "LineageOS B + MindTheGapps", "lineage-b", 8, FilesB,
                  TkTag("gapps-14-atv"), 3, "TV"),
      AndroidItem("Android Tablet", "LineageOS A (GApps not available)", "lineage-a", 8,
                  FilesA, PyNone, 0, "Tablet"),
      AndroidItem("Android TV", "LineageOS C + MindTheGapps", "lineage-c", 0, FilesC,
                  TkTag("gapps-14-atv"), 3, "TV"),
      AndroidItem("Android TV", "LineageOS B + MindTheGapps", "lineage-b", 8, <<>>,
                  TkTag("gapps-14-atv"), 3, "TV") }

\* most add_tree_item calls of one scan
MaxItems == 2

FreshScans == UNION {[1..n -> FreshItems] : n \in 0..MaxItems}

\* str(x) of a value that becomes an element of a Tcl list (ttk's _stringify):
\* a str stays, an int becomes its decimal text, None becomes "None"
Stringify(x) == TkTag(x.val)

\* json.dumps(build_files) if build_files else "", line 813
JsonDumps(build_files) == TkTag(build_files.val)

\* a row of the tree: its values and its tags as Tk hands them back
TkItem(values, tags) == [values |-> values, tags |-> tags]

\* len(item_data) == 10 and isinstance(item_data[6], dict), line 810
IsFreshAndroid(item_data) ==
    Len(item_data) = 10 /\ item_data[7].py = "dict"

\* add_tree_item, lines 798-828, for a tuple of four items or more
add_tree_item(item_data) ==
    LET values == SubSeq(item_data, 1, 4)
        rest == SubSeq(item_data, 5, Len(item_data))
        tags == IF IsFreshAndroid(item_data)
                THEN <<item_data[5], item_data[8], item_data[6], item_data[9],
                       item_data[10], JsonDumps(item_data[7])>>
                ELSE IF Len(item_data) = 6 /\ Len(rest) = 2
                THEN <<rest[1], rest[2], TkTag(""), TkTag(<<>>)>>
                ELSE rest
    IN  TkItem([k \in 1..4 |-> Stringify(values[k])],
               [k \in 1..Len(tags) |-> Stringify(tags[k])])

\* the callbacks of a list of item_data, in order
InsertAll(items) == [k \in 1..Len(items) |-> add_tree_item(items[k])]

\* a save that writes the four values of every row and leaves the tags out
SavedBuilds_ValuesOnly(rows) ==
    BuildsList([k \in 1..Len(rows) |-> Entry("list", rows[k].values)])

\* save_scan_cache, lines 871-877: list(values) + list(tags) of every row,
\* and what json.dump and json.load make of a list of str
SavedBuilds(rows) ==
    BuildsList([k \in 1..Len(rows) |-> Entry("list", rows[k].values \o rows[k].tags)])

\* load_cached_scan, lines 844-859: the entries of four items or more, each
\* split into values and tags, joined again and handed to add_tree_item
RECURSIVE RestoredItems(_)
RestoredItems(items) ==
    IF items = <<>> THEN <<>>
    ELSE LET build == Head(items).row IN
         IF Len(build) >= 4
         THEN <<add_tree_item(SubSeq(build, 1, 4) \o SubSeq(build, 5, Len(build)))>>
                  \o RestoredItems(Tail(items))
         ELSE RestoredItems(Tail(items))

\* lines 910-960: the row as start_download_thread reads it from
\* self.tree.item(item_id, "values") and self.tree.item(item_id, "tags")
RowOf(item) ==
    LET values == item.values
        tags == item.tags
    IN  IF values[1].val = "Android" /\ Len(tags) >= 6
        THEN UnifiedRow(values[3].val, tags[1].val, tags[3].val, tags[2].val, tags[4].val,
                        tags[5].val, tags[6].val)
        ELSE LegacyRow(values[1].val, values[3].val, tags[1].val, tags[2].val,
                       tags[3].val, tags[4].val)

\* scan_servers after the last item_data was handed to self.master.after
\* (lines 633 and 784): the callbacks wait in the main loop, the tree is
\* empty (line 504), no cache file yet
RoundTripInit ==
    /\ selection = <<>>
    /\ ANDROID_REQUIRED_FILES = <<>>
    /\ download_connections = 2
    /\ saves = MaxSaves
    /\ completed_downloads = 0
    /\ EngineIdle
    /\ ini_runs = <<>>
    /\ fs = <<>>
    /\ ScanIdle
    /\ tree = <<>>
    /\ download_dir = "ok"
    /\ ui_state = Buttons("disabled")
    /\ messagebox = "none"
    /\ after_calls \in FreshScans
    /\ second_pool = "none"
    /\ now = StartupTime
    /\ last_update_time = 0
    /\ chunk = <<>>
    /\ progress_calls = <<>>
    /\ last_scan_file = [json |-> "absent"]
    /\ cache_data = [json |-> "None"]
    /\ startup = "scanning"

\* the main loop runs the next add_tree_item callback, line 828
AddTreeItem ==
    /\ startup = "scanning"
    /\ after_calls # <<>>
    /\ tree' = Append(tree, add_tree_item(Head(after_calls)))
    /\ after_calls' = Tail(after_calls)
    /\ UNCHANGED <<engine_vars, plan_vars, scan_vars, download_dir, ui_state, messagebox,
                   second_pool, throttle_vars, cache_vars>>

\* save_scan_cache, line 520, called by the scan thread: it stores the rows
\* that are in the tree by then, whatever callbacks still wait
SaveScanCache ==
    /\ startup = "scanning"
    /\ last_scan_file.json = "absent"
    /\ last_scan_file' = Document(Num(now), SavedBuilds(tree))
    /\ UNCHANGED <<engine_vars, plan_vars, scan_vars, tree, download_dir, ui_state, messagebox,
                   loop_vars, throttle_vars, cache_data, startup>>

\* seconds between the save and the next start: an hour, and 25 hours
Pauses == {3600, 90000}

\* the program is closed and started again: an empty tree and the download
\* button disabled (lines 198 and 169)
Restart ==
    /\ startup = "scanning"
    /\ last_scan_file.json = "dict"
    /\ \E pause \in Pauses : now' = now + pause
    /\ tree' = <<>>
    /\ after_calls' = <<>>
    /\ ui_state' = [scan_button |-> "normal", download_button |-> "disabled"]
    /\ startup' = "init"
    /\ UNCHANGED <<engine_vars, plan_vars, scan_vars, download_dir, messagebox, second_pool,
                   last_update_time, chunk, progress_calls, last_scan_file, cache_data>>

\* load_cached_scan, lines 833-866, on a file that save_scan_cache wrote
LoadCachedBuilds ==
    /\ startup = "loaded"
    /\ IF cache_data.json # "dict" \/ cache_data.builds.items = <<>>
       THEN UNCHANGED <<tree, ui_state>>
       ELSE /\ tree' = tree \o RestoredItems(cache_data.builds.items)
            /\ ui_state' = [ui_state EXCEPT !.download_button = "normal"]
    /\ startup' = "done"
    /\ UNCHANGED <<engine_vars, plan_vars, scan_vars, download_dir, messagebox, loop_vars,
                   throttle_vars, last_scan_file, cache_data>>

RoundTripNext ==
    \/ AddTreeItem
    \/ SaveScanCache
    \/ Restart
    \/ LoadLastScan
    \/ LoadCachedBuilds

RoundTripSpec == RoundTripInit /\ [][RoundTripNext]_vars

----------------------------------------------------------------------------
(* Catalog scan: fetch_gapps_repo_list, find_matching_gapps_repo and the GApps
   lookup of scan_android_builds.  A repository name is the sequence of its
   parts, "14.0.0-arm64-ATV" being <<"14", ".", "0", ".", "0", "-", "arm64",
   "-", "ATV">>, so that startswith and endswith compare parts. *)

\* longest repository list and most builds of one device
MaxRepos == 3
MaxBuilds == 2

RepoName(version, minor, suffix) == <<version, ".", minor, ".", "0", "-">> \o suffix

Arm64 == <<"arm64">>
Arm64ATV == <<"arm64", "-", "ATV">>

\* names the MindTheGapps organisation can list
RepoNames ==
    { RepoName("14", "0", Arm64), RepoName("14", "0", Arm64ATV),
      RepoName("16", "0", Arm64ATV), RepoName("14", "1", Arm64ATV),
      RepoName("14", "2", Arm64ATV) }

\* Python's None where a name is expected
None == <<"None">>

\* self.ANDROID_DEVICES (components.json): the device ids in dict order
ANDROID_DEVICES == <<"nx", "nx_tab">>

\* version_map.get(los_version, los_version.split('.')[0]), line 693
AndroidVersion(los_version) ==
    CASE los_version = "21.0" -> "14"
      [] los_version = "22.1" -> "15"
      [] los_version = "16.0" -> "16"

\* line 694
GappsSuffix(device_id) == IF device_id = "nx_tab" THEN Arm64 ELSE Arm64ATV

\* one build of the API response: its version and whether its files hold a
\* lineage-*.zip (lines 664-688)
Build(los_version, has_zip) == [version |-> los_version, has_zip |-> has_zip]

BuildSet == {Build("21.0", TRUE), Build("22.1", TRUE), Build("21.0", FALSE)}

SeqsUpTo(S, n) == UNION {[1..k -> S] : k \in 0..n}

\* name.startswith(prefix), name.endswith(suffix)
StartsWith(name, prefix) ==
    Len(name) >= Len(prefix) /\ SubSeq(name, 1, Len(prefix)) = prefix
EndsWith(name, suffix) ==
    Len(name) >= Len(suffix) /\ SubSeq(name, Len(name) - Len(suffix) + 1, Len(name)) = suffix

\* f"{android_version}.0.0-{gapps_suffix}", line 562
ExactPattern(android_version, gapps_suffix) ==
    <<android_version, ".", "0", ".", "0", "-">> \o gapps_suffix

\* the last index of a set of list indexes
FirstOf_Last(hits) ==
    CHOOSE k \in hits : \A j \in hits : j <= k

\* "for name in list: if ...: return name" returns at the first index that
\* satisfies the condition
FirstOf(hits) ==
    CHOOSE k \in hits : \A j \in hits : k <= j

\* one loop that returns the first name satisfying either condition
find_matching_one_pass(repo_list, android_version, gapps_suffix) ==
    LET hits == {k \in 1..Len(repo_list) :
                   \/ repo_list[k] = ExactPattern(android_version, gapps_suffix)
                   \/ /\ StartsWith(repo_list[k], <<android_version, ".">>)
                      /\ EndsWith(repo_list[k], <<"-">> \o gapps_suffix)}
    IN  IF hits # {} THEN repo_list[FirstOf(hits)] ELSE None

\* find_matching_gapps_repo, lines 555-583, on self.gapps_repo_list = repo_list
find_matching_gapps_repo(repo_list, android_version, gapps_suffix) ==
    LET exact_pattern == ExactPattern(android_version, gapps_suffix)
        exact == {k \in 1..Len(repo_list) : repo_list[k] = exact_pattern}
        pattern == {k \in 1..Len(repo_list) :
                      /\ StartsWith(repo_list[k], <<android_version, ".">>)
                      /\ EndsWith(repo_list[k], <<"-">> \o gapps_suffix)}
    IN  IF exact # {} THEN repo_list[FirstOf(exact)]
        ELSE IF pattern # {} THEN repo_list[FirstOf(pattern)]
        ELSE None

\* scan_servers, line 515: fetch_gapps_repo_list (lines 539-552) stores the
\* names of the response, or [] when the request fails
FetchGappsRepoList ==
    /\ scan_at.pc = "idle"
    /\ gapps_repo_list' \in SeqsUpTo(RepoNames, MaxRepos)
    /\ scan_at' = [dev |-> 1, i |-> 0, pc |-> "device", got |-> {}]
    /\ lookups' = <<>>
    /\ UNCHANGED <<shell_vars, engine_vars, plan_vars, api_builds, fetched_gapps_versions, repo_name>>

\* lines 646-660: the next device.  A failed request (line 786) and an empty
\* build list (lines 653-655) go on to the next device; otherwise the local
\* dict is made anew and the loop over the builds starts
ScanDevice ==
    /\ scan_at.pc = "device"
    /\ scan_at.dev <= Len(ANDROID_DEVICES)
    /\ \/ /\ scan_at' = [scan_at EXCEPT !.dev = @ + 1]
          /\ UNCHANGED fetched_gapps_versions
       \/ /\ api_builds[scan_at.dev] # <<>>
          /\ scan_at' = [scan_at EXCEPT !.i = 1, !.pc = "build", !.got = @ \cup {scan_at.dev}]
          /\ fetched_gapps_versions' = <<>>
    /\ UNCHANGED <<shell_vars, engine_vars, plan_vars, gapps_repo_list, api_builds, lookups, repo_name>>

\* the function f with key k set to v
Put(f, k, v) == [x \in (DOMAIN f) \cup {k} |-> IF x = k THEN v ELSE f[x]]

\* the files the API lists for a build
BuildFilesOf(build) ==
    IF ~build.has_zip THEN << BuildFile("boot.img", "boot-a", 5) >>
    ELSE IF build.version = "21.0" THEN FilesA
    ELSE FilesB

NoZip == BuildFile("None", "None", 0)

\* lines 664-685: the last file of the build named lineage-*.zip, sofar when
\* there is none
RECURSIVE LineageZip(_, _)
LineageZip(files, sofar) ==
    IF files = <<>> THEN sofar
    ELSE LineageZip(Tail(files), IF IsLineageZip(Head(files).name) THEN Head(files) ELSE sofar)

\* a check that lets every build pass
HasPrimary_Always(files) ==
    TRUE

\* lines 687-688: if not lineage_zip_name: continue
HasPrimary(files) ==
    LineageZip(files, NoZip).name # "None"

\* gapps_name, gapps_url, gapps_size; a None is written "None"
GappsInfo(name, url, size) == [name |-> name, url |-> url, size |-> size]
NoGapps == GappsInfo("None", "None", 0)

\* the zip asset of the latest release of a repository, lines 722-728
ReleaseAsset(gapps_suffix) ==
    GappsInfo("MindTheGapps.zip", IF gapps_suffix = Arm64 THEN "gapps-14" ELSE "gapps-14-atv", 3)

\* device_type_clean, line 748: "Android (TV)" gives "TV"
DeviceTypeClean(device_id) == IF device_id = "nx_tab" THEN "Tablet" ELSE "TV"

\* a label that always names the companion
FileDisplay_AlwaysGapps(los_version, gapps_name) ==
    <<"LineageOS", los_version, "+ MindTheGapps">>

\* file_display, lines 757-762 (the date left out)
FileDisplay(los_version, gapps_name) ==
    <<"LineageOS", los_version,
      IF gapps_name # "None" THEN "+ MindTheGapps" ELSE "(GApps not available)">>

\* lines 757-785: item_data as add_tree_item inserts it, with combined_size
ScanItem(device_id, build, files, zip, gapps) ==
    TreeItem(UnifiedRow(FileDisplay(build.version, gapps.name), zip.url, zip.size,
                        gapps.url, gapps.size, DeviceTypeClean(device_id), files),
             IF gapps.name # "None" THEN zip.size + gapps.size ELSE zip.size)

\* lines 662-785: one build.  A build without a lineage zip is left at line
\* 688.  A key of the dict is reused (lines 701-708); otherwise the matcher is
\* called, and with a repository name the release is fetched: the response is
\* cached (lines 730-735) with its zip asset or None, an exception caches the
\* failure (lines 737-744).  Without a repository name nothing is stored.
\* Then the unified entry is handed to add_tree_item.
ScanBuild ==
    /\ scan_at.pc = "build"
    /\ scan_at.i <= Len(api_builds[scan_at.dev])
    /\ LET build == api_builds[scan_at.dev][scan_at.i]
           device_id == ANDROID_DEVICES[scan_at.dev]
           files == BuildFilesOf(build)
           zip == LineageZip(files, NoZip)
           android_version == AndroidVersion(build.version)
           gapps_suffix == GappsSuffix(device_id)
           gapps_key == <<android_version, gapps_suffix>>
           found == find_matching_gapps_repo(gapps_repo_list, android_version, gapps_suffix)
       IN  IF ~HasPrimary(files)
           THEN UNCHANGED <<fetched_gapps_versions, lookups, repo_name, tree>>
           ELSE IF gapps_key \in DOMAIN fetched_gapps_versions
           THEN /\ UNCHANGED <<fetched_gapps_versions, lookups, repo_name>>
                /\ tree' = Append(tree, ScanItem(device_id, build, files, zip,
                                                 fetched_gapps_versions[gapps_key]))
           ELSE /\ lookups' = Put(lookups, gapps_key,
                                  IF gapps_key \in DOMAIN lookups
                                  THEN lookups[gapps_key] + 1 ELSE 1)
                /\ repo_name' = <<[android_version |-> android_version,
                                   gapps_suffix |-> gapps_suffix, result |-> found]>>
                /\ IF found # None
                   THEN \E gapps \in {ReleaseAsset(gapps_suffix), NoGapps} :
                            /\ fetched_gapps_versions' =
                                   Put(fetched_gapps_versions, gapps_key, gapps)
                            /\ tree' = Append(tree, ScanItem(device_id, build, files, zip, gapps))
                   ELSE /\ UNCHANGED fetched_gapps_versions
                        /\ tree' = Append(tree, ScanItem(device_id, build, files, zip, NoGapps))
    /\ scan_at' = [scan_at EXCEPT !.i = @ + 1]
    /\ UNCHANGED <<download_dir, ui_state, messagebox, loop_vars, throttle_vars, cache_vars,
                   engine_vars, plan_vars, gapps_repo_list, api_builds>>

\* the loop over the builds of a device is exhausted
ScanNextDevice ==
    /\ scan_at.pc = "build"
    /\ scan_at.i > Len(api_builds[scan_at.dev])
    /\ scan_at' = [scan_at EXCEPT !.dev = @ + 1, !.pc = "device"]
    /\ UNCHANGED <<shell_vars, engine_vars, plan_vars, gapps_repo_list, api_builds,
                   fetched_gapps_versions, lookups, repo_name>>

\* save_scan_cache, lines 868-879: one list per row of the tree
SavedDocument(rows, timestamp) ==
    Document(Num(timestamp), BuildsList([k \in 1..Len(rows) |-> Entry("list", rows[k].row)]))

\* the loop over the devices is exhausted and scan_android_builds returns;
\* scan_servers, lines 519-524: the tree is saved to the cache file (a failure
\* to write it is caught, line 90) and the scan thread hands the main loop the
\* call that enables the Download button
ScanDone ==
    /\ scan_at.pc = "device"
    /\ scan_at.dev > Len(ANDROID_DEVICES)
    /\ scan_at' = [scan_at EXCEPT !.pc = "finally"]
    /\ \/ last_scan_file' = SavedDocument(tree, now)
       \/ last_scan_file' = last_scan_file
    /\ after_calls' = Append(after_calls, "download_button.config")
    /\ UNCHANGED <<tree, download_dir, ui_state, messagebox, second_pool, throttle_vars,
                   cache_data, startup, engine_vars, plan_vars, gapps_repo_list, api_builds,
                   fetched_gapps_versions, lookups, repo_name>>

\* scan_servers, lines 527-528: the finally clause hands the main loop
\* set_ui_state("normal")
ScanFinally ==
    /\ scan_at.pc = "finally"
    /\ scan_at' = [scan_at EXCEPT !.pc = "done"]
    /\ after_calls' = Append(after_calls, "set_ui_state")
    /\ UNCHANGED <<tree, download_dir, ui_state, messagebox, second_pool, throttle_vars,
                   cache_vars, engine_vars, plan_vars, gapps_repo_list, api_builds,
                   fetched_gapps_versions, lookups, repo_name>>

\* whether callback c is among the callbacks q
Holds(q, c) == \E k \in 1..Len(q) : q[k] = c

\* the main loop runs the callbacks of after(0, ...) that are due, all of them
\* in one go and in the order they were handed over: line 524 enables the
\* Download button, line 528 both buttons (lines 462-465)
RunAfter ==
    /\ after_calls # <<>>
    /\ ui_state' = IF Holds(after_calls, "set_ui_state")
                   THEN Buttons("normal")
                   ELSE [ui_state EXCEPT !.download_button = "normal"]
    /\ after_calls' = <<>>
    /\ UNCHANGED <<tree, download_dir, messagebox, second_pool, throttle_vars, cache_vars,
                   engine_vars, plan_vars, scan_vars>>

ScanInit ==
    /\ selection = <<>>
    /\ ANDROID_REQUIRED_FILES = <<>>
    /\ download_connections = 2
    /\ saves = MaxSaves
    /\ completed_downloads = 0
    /\ EngineIdle
    /\ ini_runs = <<>>
    /\ fs = <<>>
    /\ gapps_repo_list = <<>>
    /\ api_builds \in [1..Len(ANDROID_DEVICES) -> SeqsUpTo(BuildSet, MaxBuilds)]
    /\ scan_at = [dev |-> 0, i |-> 0, pc |-> "idle", got |-> {}]
    /\ fetched_gapps_versions = <<>>
    /\ lookups = <<>>
    /\ repo_name = <<>>
    \* start_scan_thread, lines 494-509: the buttons are disabled, the tree is empty
    /\ tree = <<>>
    /\ download_dir = "ok"
    /\ ui_state = Buttons("disabled")
    /\ messagebox = "none"
    /\ after_calls = <<>>
    /\ second_pool = "none"
    /\ now = StartupTime
    /\ last_update_time = 0
    /\ chunk = <<>>
    /\ progress_calls = <<>>
    /\ CacheIdle

ScanNext ==
    \/ FetchGappsRepoList
    \/ ScanDevice
    \/ ScanBuild
    \/ ScanNextDevice
    \/ ScanDone
    \/ ScanFinally
    \/ RunAfter

ScanSpec == ScanInit /\ [][ScanNext]_vars

----------------------------------------------------------------------------
(* Runs with more tasks than the pool has threads *)

\* rows of a run that keeps the four threads of the pool busy
ManyRows == PoolWidth + 1

\* small files of two Linux sources, the mirror of the second one being down
\* (the rows were scanned while it was up)
SmallRows ==
    [k \in 1..ManyRows |->
        LegacyRow("Linux", <<"s1.7z", "s2.7z", "s3.7z", "s4.7z", "s5.7z", "s6.7z">>[k],
                  <<"linux-s1", "down-s2", "down-s3", "down-s4", "linux-s5", "linux-s6">>[k],
                  2, "", <<>>)]

PoolScenarios ==
    Scenario(SmallRows, <<>>, {2}, 0, {0})
    \cup Scenario(<< LinuxRow("linux-a", "a.7z") >>, <<>>, 2..MaxConn, MaxSaves, {0})
    \cup Scenario(<< PlainAndroidRow("lineage-tv", "lineage-tv.zip", "None", 0, "TV") >>,
                  <<>>, {2}, 0, {0})

\* a file an earlier run left at a destination path of this run
OldFile == [ex |-> TRUE, gen |-> 0, data |-> << <<"earlier-run", 0, 1>> >>]

\* the destination paths that may hold a file when the run starts
Leftovers == {{}, {<<"a.7z">>}}

PoolInit ==
    \E sc \in PoolScenarios \cup NoRun, have \in Leftovers :
    /\ selection = sc.rows
    /\ ANDROID_REQUIRED_FILES = sc.required
    /\ download_connections = sc.conn
    /\ saves = sc.saves
    /\ completed_downloads = sc.prev
    /\ EngineIdle
    /\ ini_runs = [d \in DevicesOf(Reach(sc.rows, sc.required)) |-> 0]
    /\ have \subseteq PathsOf(Reach(sc.rows, sc.required))
    /\ fs = [p \in PathsOf(Reach(sc.rows, sc.required)) |->
                IF p \in have THEN OldFile ELSE NoFile]
    /\ ScanIdle
    /\ ShellReady(sc.tree, sc.dir)

----------------------------------------------------------------------------
(* The "Rate-limit GUI updates" block of download_file_worker (lines
   1178-1185 and 1218-1225).  Times are in units of 0.05 s. *)

\* 0.1 s, lines 1180 and 1220
ThrottleInterval == 2

\* time.time() when the workers start to stream, and how far the clock goes
StreamTime == 100
MaxTicks == 3

\* most update_progress calls of a run of the model
MaxCalls == 4

\* two small files of a Linux source
StreamRows ==
    << LegacyRow("Linux", "s1.7z", "linux-s1", 2, "", <<>>),
       LegacyRow("Linux", "s5.7z", "linux-s5", 2, "", <<>>) >>

\* a worker that has opened its destination file and iterates over the
\* chunks of the response (line 1213); files is the file system before
StreamingWorker(files, task) ==
    [NewWorker EXCEPT !.pc = "write", !.total_size = RemoteSize(task.url),
                      !.accept_ranges = "bytes", !.out = Handle(files, FilePath(task)),
                      !.runs = 1]

\* a run of StreamRows in which both workers stream their response
ThrottleInit ==
    LET ts == Reach(StreamRows, <<>>)
        none == [p \in PathsOf(ts) |-> NoFile]
    IN
    /\ selection = StreamRows
    /\ ANDROID_REQUIRED_FILES = <<>>
    /\ download_connections = 2
    /\ saves = MaxSaves
    /\ completed_downloads = 0
    /\ tasks = ts
    /\ w = [t \in 1..Len(ts) |-> StreamingWorker(none, ts[t])]
    /\ download_lock = 0
    /\ android_device_types = {}
    /\ pool = "running"
    /\ ini_left = {}
    /\ reported = 0
    /\ ini_runs = <<>>
    /\ fs = OpenWB(OpenWB(none, FilePath(ts[1])), FilePath(ts[2]))
    /\ ScanIdle
    /\ tree = TreeOf(StreamRows)
    /\ download_dir = "ok"
    /\ ui_state = Buttons("disabled")
    /\ messagebox = "none"
    /\ after_calls = <<>>
    /\ second_pool = "none"
    /\ now = StreamTime
    /\ last_update_time = 0
    /\ chunk = [t \in 1..Len(ts) |-> [pc |-> "stream", current_time |-> 0]]
    /\ progress_calls = <<>>
    /\ CacheIdle

\* time passes
Tick ==
    /\ now < StreamTime + MaxTicks
    /\ now' = now + 1
    /\ UNCHANGED <<engine_vars, plan_vars, scan_vars, tree, download_dir, ui_state,
                   messagebox, loop_vars, cache_vars, last_update_time, chunk, progress_calls>>

\* lines 1215-1219: the next chunk is written and current_time = time.time()
ChunkTime(t) ==
    /\ w[t].pc = "write"
    /\ chunk[t].pc = "stream"
    /\ Len(progress_calls) < MaxCalls
    /\ chunk' = [chunk EXCEPT ![t] = [pc |-> "check", current_time |-> now]]
    /\ UNCHANGED <<engine_vars, plan_vars, scan_vars, tree, download_dir, ui_state,
                   messagebox, loop_vars, cache_vars, now, last_update_time, progress_calls>>

\* the condition of line 1220 negated: the block is skipped
Throttled(current_time, last) ==
    ~(current_time - last > ThrottleInterval)

\* line 1220: self.last_update_time is read and compared
ChunkCheck(t) ==
    /\ chunk[t].pc = "check"
    /\ chunk' = [chunk EXCEPT ![t].pc =
                    IF Throttled(chunk[t].current_time, last_update_time)
                    THEN "stream" ELSE "store"]
    /\ UNCHANGED <<engine_vars, plan_vars, scan_vars, tree, download_dir, ui_state,
                   messagebox, loop_vars, cache_vars, now, last_update_time, progress_calls>>

\* lines 1221-1225: self.last_update_time is written, the counter read under
\* the lock and update_progress handed to the main loop
ChunkStore(t) ==
    /\ chunk[t].pc = "store"
    /\ download_lock = 0
    /\ last_update_time' = chunk[t].current_time
    /\ progress_calls' = Append(progress_calls, now)
    /\ chunk' = [chunk EXCEPT ![t].pc = "stream"]
    /\ UNCHANGED <<engine_vars, plan_vars, scan_vars, tree, download_dir, ui_state,
                   messagebox, loop_vars, cache_vars, now>>

ThrottleNext ==
    \/ Tick
    \/ \E t \in TaskIds : ChunkTime(t)
    \/ \E t \in TaskIds : ChunkCheck(t)
    \/ \E t \in TaskIds : ChunkStore(t)

ThrottleSpec == ThrottleInit /\ [][ThrottleNext]_vars

Next ==
    \/ StartDownload
    \/ StartDownloadNoSelection
    \/ StartDownloadInvalidDir
    \/ StartDownloadNoTasks
    \/ PoolStart
    \/ PoolJoin
    \/ \E d \in DevicesOf(tasks) : CreateIni(d)
    \/ PoolReport
    \/ SaveSettings
    \/ \E t \in TaskIds : WorkerPick(t)
    \/ \E t \in TaskIds : WStart(t)
    \/ \E t \in TaskIds : WProbe(t)
    \/ \E t \in TaskIds : WSegSize(t)
    \/ \E t \in TaskIds : WRange(t)
    \/ \E t \in TaskIds : WMkSeg(t)
    \/ \E t \in TaskIds : WProgress(t)
    \/ \E t \in TaskIds : WSubmit(t)
    \/ \E t \in TaskIds : WAwait(t)
    \/ \E t \in TaskIds : WCombineOpen(t)
    \/ \E t \in TaskIds : WCopy(t)
    \/ \E t \in TaskIds : WRemove(t)
    \/ \E t \in TaskIds : WGet(t)
    \/ \E t \in TaskIds : WWrite(t)
    \/ \E t \in TaskIds : WLock(t)
    \/ \E t \in TaskIds : WCount(t)
    \/ \E t \in TaskIds : WExceptReq(t)
    \/ \E t \in TaskIds : WExceptExc(t)
    \/ \E t \in TaskIds, i \in 1..MaxConn : SegStart(t, i)
    \/ \E t \in TaskIds, i \in 1..MaxConn : SegWrite(t, i)

Spec == Init /\ [][Next]_vars

PoolSpec == PoolInit /\ [][Next]_vars

\* most tasks of a run of the model
MaxTasks == 6

\* the steps of the download_files_pool thread
PoolThread ==
    \/ PoolStart
    \/ PoolJoin
    \/ \E d \in DevicesOf(tasks) : CreateIni(d)
    \/ PoolReport

\* the steps of the executor thread that runs download_file_worker for task t
WorkerThread(t) ==
    /\ t \in TaskIds
    /\ \/ WorkerPick(t) \/ WStart(t) \/ WProbe(t) \/ WSegSize(t) \/ WRange(t) \/ WMkSeg(t)
       \/ WProgress(t) \/ WSubmit(t) \/ WAwait(t) \/ WCombineOpen(t) \/ WCopy(t)
       \/ WRemove(t) \/ WGet(t) \/ WWrite(t) \/ WLock(t) \/ WCount(t) \/ WExceptReq(t)
       \/ WExceptExc(t)

\* the steps of the thread that runs download_segment for segment i of task t
SegmentThread(t, i) ==
    /\ t \in TaskIds
    /\ SegStart(t, i) \/ SegWrite(t, i)

\* every thread that can take a step is scheduled in the end, and every
\* request completes or fails (session.head with timeout=10, session.get
\* with timeout=30); the user owes the program no click
FairPoolSpec ==
    /\ PoolInit
    /\ [][Next]_vars
    /\ WF_vars(PoolThread)
    /\ \A t \in 1..MaxTasks : WF_vars(WorkerThread(t))
    /\ \A t \in 1..MaxTasks : \A i \in 1..MaxConn : WF_vars(SegmentThread(t, i))

----------------------------------------------------------------------------
(* The end of a scan and the start of a download: the scan thread is about
   to leave scan_android_builds, the tree holds the Linux rows it found, and
   the user presses Download as soon as the button lets them *)

\* the runs of ShellSpec: a file of more than 5 MiB with a settings save
\* during the run, nothing selected, and a download directory that is gone
ShellScenarios ==
    LET big == Scenario(<< LinuxRow("linux-a", "a.7z") >>, <<>>, {2}, MaxSaves, {0})
        one == CHOOSE sc \in big : TRUE
    IN  big \cup {[one EXCEPT !.rows = <<>>], [one EXCEPT !.dir = "missing"]}

ShellInit ==
    \E sc \in ShellScenarios :
    /\ selection = sc.rows
    /\ ANDROID_REQUIRED_FILES = sc.required
    /\ download_connections = sc.conn
    /\ saves = sc.saves
    /\ completed_downloads = sc.prev
    /\ EngineIdle
    /\ ini_runs = <<>>
    /\ fs = [p \in PathsOf(Reach(sc.rows, sc.required)) |-> NoFile]
    \* the requests for both devices failed; the last device is behind
    /\ gapps_repo_list = <<>>
    /\ api_builds = [d \in 1..Len(ANDROID_DEVICES) |-> <<>>]
    /\ scan_at = [dev |-> Len(ANDROID_DEVICES) + 1, i |-> 0, pc |-> "device", got |-> {}]
    /\ fetched_gapps_versions = <<>>
    /\ lookups = <<>>
    /\ repo_name = <<>>
    \* start_scan_thread disabled the buttons; scan_linux_builds filled the tree
    /\ tree = TreeOf(sc.tree)
    /\ download_dir = sc.dir
    /\ ui_state = Buttons("disabled")
    /\ messagebox = "none"
    /\ after_calls = <<>>
    /\ second_pool = "none"
    /\ ThrottleIdle
    /\ CacheIdle

\* start_download_thread, lines 888-1027, called while the pool thread of an
\* earlier call is alive: the same checks, the same task list, one more pool
\* thread (line 1027)
StartDownloadDuringRun ==
    /\ pool \notin {"idle", "done"}
    /\ second_pool = "none"
    /\ ui_state.download_button = "normal"
    /\ selection # <<>>
    /\ DirValid(download_dir)
    /\ \E ts \in Plans(selection, ANDROID_REQUIRED_FILES) : ts # <<>>
    /\ ui_state' = Buttons("disabled")
    /\ second_pool' = "start"
    /\ UNCHANGED <<tree, download_dir, messagebox, after_calls, throttle_vars, cache_vars,
                   engine_vars, plan_vars, scan_vars>>

\* download_files_pool of the second thread, line 1032: the shared counter is
\* reset
SecondPoolStart ==
    /\ second_pool = "start"
    /\ second_pool' = "running"
    /\ completed_downloads' = 0
    /\ UNCHANGED <<tree, download_dir, ui_state, messagebox, after_calls, throttle_vars,
                   cache_vars, plan_vars, scan_vars, download_connections, download_lock,
                   tasks, android_device_types, pool, ini_left, ini_runs, reported, w, fs,
                   saves>>

ShellNext ==
    \/ ScanDone
    \/ ScanFinally
    \/ RunAfter
    \/ StartDownload
    \/ StartDownloadNoSelection
    \/ StartDownloadInvalidDir
    \/ StartDownloadDuringRun
    \/ SecondPoolStart
    \/ PoolStart
    \/ PoolJoin
    \/ PoolReport
    \/ SaveSettings
    \/ \E t \in TaskIds : WorkerPick(t)
    \/ \E t \in TaskIds : WStart(t)
    \/ \E t \in TaskIds : WProbe(t)
    \/ \E t \in TaskIds : WSegSize(t)
    \/ \E t \in TaskIds : WRange(t)
    \/ \E t \in TaskIds : WMkSeg(t)
    \/ \E t \in TaskIds : WProgress(t)
    \/ \E t \in TaskIds : WSubmit(t)
    \/ \E t \in TaskIds : WAwait(t)
    \/ \E t \in TaskIds : WCombineOpen(t)
    \/ \E t \in TaskIds : WCopy(t)
    \/ \E t \in TaskIds : WRemove(t)
    \/ \E t \in TaskIds : WGet(t)
    \/ \E t \in TaskIds : WWrite(t)
    \/ \E t \in TaskIds : WLock(t)
    \/ \E t \in TaskIds : WCount(t)
    \/ \E t \in TaskIds : WExceptReq(t)
    \/ \E t \in TaskIds : WExceptExc(t)
    \/ \E t \in TaskIds, i \in 1..MaxConn : SegStart(t, i)
    \/ \E t \in TaskIds, i \in 1..MaxConn : SegWrite(t, i)

ShellSpec == ShellInit /\ [][ShellNext]_vars

----------------------------------------------------------------------------
(* Properties *)

\* the three equalities of a partition of [0, S) into the ranges segs
IsPartition(segs, S) ==
    /\ Len(segs) >= 1
    /\ segs[1][1] = 0
    /\ segs[Len(segs)][2] = S - 1
    /\ \A i \in 1..(Len(segs) - 1) : segs[i][2] + 1 = segs[i + 1][1]

\* task t is in multi-segment mode and has generated all its segment ranges
SegmentsBuilt(t) ==
    /\ w[t].multi
    /\ w[t].pc \notin {"segsize", "range", "mkseg"}
    /\ w[t].segments # <<>>

\* C1: the segment ranges generated for a task in multi-segment mode partition
\* [0, total_size): the first starts at 0, the last ends at total_size - 1, and
\* each one ends right before the next one starts.
C1_SegmentsPartition ==
    \A t \in TaskIds :
        SegmentsBuilt(t) => IsPartition(w[t].segments, w[t].total_size)

\* every segment fetch of t received exactly the range it requested
RangesHonoured(t) ==
    \A i \in 1..Len(w[t].futs) :
        /\ w[t].futs[i].st = "done"
        /\ w[t].futs[i].body
             = << <<tasks[t].url, w[t].segments[i][1], w[t].segments[i][2]>> >>

\* C2: when a multi-segment task has succeeded and the server honoured every
\* requested range, the destination file holds the byte stream a single-stream
\* download of the resource produces.
C2_ReassemblyExact ==
    \A t \in TaskIds :
        (w[t].multi /\ w[t].pc \in {"lock", "count", "finished"} /\ RangesHonoured(t))
            => /\ fs[FilePath(tasks[t])].ex
               /\ fs[FilePath(tasks[t])].data = WholeBody(tasks[t].url)

TransferDone(t) ==
    /\ w[t].out # NoHandle
    /\ IF w[t].multi
       THEN /\ w[t].futs # <<>>
            /\ \A i \in 1..Len(w[t].futs) : w[t].futs[i].st = "done"
            /\ w[t].ci = Len(w[t].segments) + 1
       ELSE w[t].out.off = RemoteSize(tasks[t].url)

\* C4: the counter changes only by one, only in a step of a task that holds the
\* lock and whose transfer has fully succeeded, and which is finished thereby;
\* the counter is the number of finished tasks, so no failed task is counted.
C4_IncrementAfterSuccessUnderLock ==
    /\ [][(pool \notin {"idle", "start"} /\ completed_downloads' # completed_downloads) =>
            \E t \in TaskIds :
                /\ download_lock = t
                /\ w[t].pc = "count"
                /\ TransferDone(t)
                /\ w'[t].pc = "finished"
                /\ completed_downloads' = completed_downloads + 1]_vars
    /\ [](pool \notin {"idle", "start"} =>
            completed_downloads = Cardinality({t \in TaskIds : w[t].pc = "finished"}))

C4_Witness ==
    \E t, u \in TaskIds :
        /\ w[t].pc = "finished" /\ w[t].multi
        /\ w[u].pc = "failed"
        /\ completed_downloads = 1

\* C5: once the pool has left its executor, every task of the list has been
\* executed to its end, whatever happened to the others.
C5_FailuresDoNotAbortPool ==
    pool \in {"ini", "done"} => \A t \in TaskIds : w[t].pc \in Terminal

C5_Witness ==
    /\ pool = "done"
    /\ Len(tasks) = 3
    /\ w[1].pc = "raised"
    /\ w[2].pc = "failed"
    /\ w[3].pc = "finished"

\* C6: create_android_ini runs at most once per device type, and only when
\* every task of that device type has ended.
C6_FinalizationOnceAfterTasks ==
    /\ [](\A d \in DevicesOf(tasks) : ini_runs[d] <= 1)
    /\ [][\A d \in DevicesOf(tasks) :
            ini_runs'[d] # ini_runs[d] =>
                \A t \in TaskIds : tasks[t].dev = d => w[t].pc \in Terminal]_vars

C6_Witness ==
    \E t \in TaskIds :
        /\ tasks[t].dev # ""
        /\ w[t].pc = "failed"
        /\ ini_runs[tasks[t].dev] = 1
        /\ pool = "ini"

\* C7: when the run is over, create_android_ini has run for every device type
\* that a task of the list carries, and a descriptor it wrote is the template.
C7_FinalizationForEveryProfile ==
    pool = "done" =>
        \A d \in DevicesOf(tasks) :
            /\ ini_runs[d] >= 1
            /\ fs[IniPath(d)].ex => fs[IniPath(d)].data = IniTemplate

\* C8: completion is reported at most once, only when every task has ended and
\* create_android_ini has run for every device type of the list, and the pool
\* is over exactly when it has been reported.
C8_CompletionReportedOnceAtEnd ==
    /\ reported <= 1
    /\ (pool = "done") <=> (reported = 1)
    /\ reported = 1 =>
         /\ \A t \in TaskIds : w[t].pc \in Terminal
         /\ ini_left = {}
         /\ \A d \in DevicesOf(tasks) : ini_runs[d] >= 1

\* C9: the probe sends a task down the multi-segment path exactly when ranges
\* are advertised, the size is more than 5 MiB and more than one connection is
\* configured; otherwise down the single-stream path. Segments exist only in
\* multi-segment mode.
C9_MultiSegmentEligibility ==
    /\ [][\A t \in TaskIds :
            (w[t].pc = "probe" /\ w'[t].pc \in {"segsize", "get"}) =>
                ((w'[t].pc = "segsize") <=>
                    (/\ w'[t].accept_ranges # "none"
                     /\ w'[t].total_size > 5 * 1024 * 1024
                     /\ download_connections > 1))]_vars
    /\ [](\A t \in TaskIds :
            /\ w[t].pc \in {"segsize", "range", "mkseg", "progress", "submit",
                            "monitor", "combine", "copy", "remove"} => w[t].multi
            /\ w[t].pc \in {"get", "write"} => ~w[t].multi
            /\ w[t].segments # <<>> => w[t].multi)

C9_Witness ==
    \E t \in TaskIds :
        /\ w[t].pc = "write"
        /\ w[t].accept_ranges = "bytes"
        /\ w[t].total_size = 5 * 1024 * 1024
        /\ download_connections > 1

\* C10: a task one of whose segment fetches failed never opens its destination
\* and is never counted; it leaves the monitor loop only when all its segment
\* fetches are over, and then fails.
C10_SegmentFailureFailsTask ==
    \A t \in TaskIds :
        (\E i \in 1..Len(w[t].futs) : w[t].futs[i].st \in {"req", "exc"}) =>
            /\ w[t].pc \in {"monitor", "except_req", "except_exc", "failed"}
            /\ w[t].pc # "monitor" => \A i \in 1..Len(w[t].futs) : SegDone(w[t].futs[i])
            /\ w[t].out = NoHandle

C10_Witness ==
    \E t \in TaskIds :
        /\ w[t].pc = "failed"
        /\ Len(w[t].futs) = 3
        /\ w[t].futs[1].st = "done"
        /\ w[t].futs[2].st = "req"
        /\ w[t].futs[3].st = "done"

\* the temp paths of the segments task t generated
OwnTempPaths(t) ==
    {TempPath(FilePath(tasks[t]), i - 1) : i \in 1..Len(w[t].segments)}

\* C11: when a task has failed, neither its destination file nor any of its
\* segment temp files exists.
C11_NoLeftoversAfterFailure ==
    \A t \in TaskIds :
        w[t].pc = "failed" =>
            /\ ~fs[FilePath(tasks[t])].ex
            /\ \A p \in OwnTempPaths(t) : ~fs[p].ex

\* C12: when a multi-segment task has succeeded, every temp file its segment
\* fetches wrote has been deleted: none of them is on disk any more.
C12_TempFilesDeleted ==
    \A t \in TaskIds :
        (w[t].multi /\ w[t].pc \in {"lock", "count", "finished"}) =>
            /\ Len(w[t].futs) = Len(w[t].segments)
            /\ \A i \in 1..Len(w[t].futs) : ~Live(fs, w[t].futs[i].h)

C12_Witness ==
    \E t \in TaskIds :
        /\ w[t].pc = "finished"
        /\ Len(w[t].futs) = 3
        /\ fs[FilePath(tasks[t])].ex
        /\ \A p \in OwnTempPaths(t) : ~fs[p].ex

----------------------------------------------------------------------------
(* Properties of the planner *)

\* the selected rows that carry device type d and were not skipped
RowsOf(d) ==
    {k \in 1..Len(selection) : selection[k].device_type = d}

\* C13: in the list handed to the pool, every device type that a task carries
\* has exactly one task per file of ANDROID_REQUIRED_FILES, however many
\* selected rows carry that device type.
C13_ExtrasOncePerProfile ==
    pool = "start" =>
        \A d \in DevicesOf(tasks) :
            \A k \in 1..Len(ANDROID_REQUIRED_FILES) :
                Cardinality({t \in TaskIds :
                    /\ tasks[t].dist = "Android-Extras"
                    /\ tasks[t].dev = d
                    /\ tasks[t].url = ANDROID_REQUIRED_FILES[k].url
                    /\ tasks[t].path = ANDROID_REQUIRED_FILES[k].path}) = 1

C13_Witness ==
    /\ pool = "start"
    /\ Len(ANDROID_REQUIRED_FILES) = 2
    /\ Cardinality(RowsOf("TV")) = 2
    /\ \A k \in RowsOf("TV") : selection[k].fmt = "unified" /\ selection[k].lineage_size > 0
    /\ Cardinality({t \in TaskIds : tasks[t].dist = "Android-Extras"}) = 2

\* C14: in the list handed to the pool, the total of every task is the length
\* of the list and the numbers are 1, 2, ... in list order.
C14_NumbersAndTotals ==
    pool = "start" =>
        /\ Len(tasks) >= 1
        /\ \A t \in TaskIds : tasks[t].total = Len(tasks) /\ tasks[t].num = t

C14_Witness ==
    /\ pool = "start"
    /\ Len(selection) = 2
    /\ selection[1].fmt = "unified" /\ selection[1].lineage_size = 0
    /\ Len(tasks) = 5
    /\ tasks[5].num = 5 /\ tasks[5].total = 5

\* the urls of the artifacts of the selected rows whose recorded size is 0
ZeroSizeUrls ==
    UNION {LET r == selection[k] IN
           (IF r.fmt = "unified"
            THEN (IF r.lineage_size = 0 THEN {r.lineage_url} ELSE {})
                 \cup (IF r.gapps_size = 0 THEN {r.gapps_url} ELSE {})
            ELSE (IF r.size = 0 THEN {r.url} ELSE {}))
           \cup {r.build_files[i].url : i \in {j \in 1..Len(r.build_files) :
                                                 r.build_files[j].size = 0}}
           : k \in 1..Len(selection)}

\* C15: no task of the list handed to the pool refers to an artifact whose
\* recorded size is 0.
C15_NoTaskForZeroSize ==
    pool = "start" => \A t \in TaskIds : tasks[t].url \notin ZeroSizeUrls

\* the selected rows that have a constituent (primary or companion) of
\* non-zero size at url u
RowsWith(u) ==
    {k \in 1..Len(selection) :
        LET r == selection[k] IN
        IF r.fmt = "unified"
        THEN \/ r.lineage_url = u /\ r.lineage_size > 0
             \/ r.gapps_url = u /\ r.gapps_size > 0
        ELSE r.url = u /\ r.size > 0}

ConstituentUrls ==
    UNION {LET r == selection[k] IN
           IF r.fmt = "unified" THEN {r.lineage_url, r.gapps_url} ELSE {r.url}
           : k \in 1..Len(selection)}

\* C16: the list handed to the pool has one task per selected row and
\* constituent of non-zero size of that row, whatever the size of the row's
\* other constituent.
C16_ConstituentsIndependent ==
    pool = "start" =>
        \A u \in ConstituentUrls :
            Cardinality({t \in TaskIds :
                /\ tasks[t].url = u
                /\ tasks[t].dist \notin {"Android-Build", "Android-Extras"}})
              = Cardinality(RowsWith(u))

\* C17: for every selected row with a device type, the list handed to the pool
\* has an Android-Build task for each of the row's build files but the
\* LineageOS zip and super_empty.img.
C17_BuildFilesOfEveryRow ==
    pool = "start" =>
        \A k \in 1..Len(selection) :
            LET r == selection[k] IN
            r.device_type # "" =>
                \A i \in 1..Len(r.build_files) :
                    LET f == r.build_files[i] IN
                    (~IsLineageZip(f.name) /\ f.name # "super_empty.img") =>
                        \E t \in TaskIds :
                            /\ tasks[t].dist = "Android-Build"
                            /\ tasks[t].dev = r.device_type
                            /\ tasks[t].url = f.url

----------------------------------------------------------------------------
(* Properties of the catalog scan *)

\* the calls of the matcher: at most the last one
Calls == {repo_name[k] : k \in 1..Len(repo_name)}

Listed == {gapps_repo_list[k] : k \in 1..Len(gapps_repo_list)}

IsExact(name, c) == name = RepoName(c.android_version, "0", c.gapps_suffix)

IsPatternHit(name, c) ==
    /\ StartsWith(name, <<c.android_version, ".">>)
    /\ EndsWith(name, <<"-">> \o c.gapps_suffix)

\* C18: when the list holds the name "{version}.0.0-{suffix}", the matcher
\* returns that name, wherever it stands and whatever stands before it.
C18_ExactMatchWins ==
    \A c \in Calls :
        (\E name \in Listed : IsExact(name, c)) => IsExact(c.result, c)

C18_Witness ==
    \E c \in Calls :
        /\ Len(gapps_repo_list) = 3
        /\ IsPatternHit(gapps_repo_list[1], c) /\ ~IsExact(gapps_repo_list[1], c)
        /\ ~IsPatternHit(gapps_repo_list[2], c)
        /\ IsExact(gapps_repo_list[3], c)
        /\ c.result = gapps_repo_list[3]

\* C19: when the list holds no exact name, the matcher returns the first
\* name of the list that starts with "{version}." and ends with "-{suffix}",
\* and None when there is no such name; the result is a name of the list or
\* None.
C19_FirstPatternMatchOrNone ==
    \A c \in Calls :
        /\ c.result \in Listed \cup {None}
        /\ (\A name \in Listed : ~IsExact(name, c)) =>
              IF \E name \in Listed : IsPatternHit(name, c)
              THEN \E k \in 1..Len(gapps_repo_list) :
                      /\ c.result = gapps_repo_list[k]
                      /\ IsPatternHit(gapps_repo_list[k], c)
                      /\ \A j \in 1..(k - 1) : ~IsPatternHit(gapps_repo_list[j], c)
              ELSE c.result = None

C19_Witness ==
    \E c \in Calls :
        /\ Len(gapps_repo_list) = 3
        /\ \A name \in Listed : ~IsExact(name, c)
        /\ ~IsPatternHit(gapps_repo_list[1], c)
        /\ IsPatternHit(gapps_repo_list[2], c)
        /\ IsPatternHit(gapps_repo_list[3], c)
        /\ gapps_repo_list[2] # gapps_repo_list[3]
        /\ c.result = gapps_repo_list[2]

\* C20: in one scan the companion is looked up at most once per key
\* (android_version, gapps_suffix).
C20_LookupOncePerKey ==
    \A key \in DOMAIN lookups : lookups[key] <= 1

----------------------------------------------------------------------------
(* Properties of the scan cache *)

\* the age of the stored record, when it has a numeric timestamp
StoredAge == now - last_scan_file.scan_timestamp.v

\* C21: load_last_scan returns the stored record as it is when its age is
\* less than 24 h, and None when its age is 24 h or more or it has no
\* timestamp.
C21_FreshIffYoungerThanADay ==
    (startup # "init" /\ last_scan_file.json = "dict") =>
        /\ last_scan_file.scan_timestamp.is = "number" =>
              IF StoredAge < 86400 THEN cache_data = last_scan_file
              ELSE cache_data = [json |-> "None"]
        /\ last_scan_file.scan_timestamp.is = "missing" => cache_data = [json |-> "None"]

C21_Witness ==
    /\ startup = "done"
    /\ last_scan_file.json = "dict"
    /\ last_scan_file.scan_timestamp = Num(now - 3600)
    /\ last_scan_file.builds.is = "list"
    /\ Len(last_scan_file.builds.items) = 2
    /\ cache_data = last_scan_file
    /\ Len(tree) = 2

\* the window and the program state when there is no cache file
AsWithoutCache ==
    /\ startup = "done"
    /\ tree = <<>>
    /\ ui_state = [scan_button |-> "normal", download_button |-> "disabled"]

\* the stored document is unparsable or does not have the shape
\* save_last_scan writes
Corrupt ==
    \/ last_scan_file.json \in {"unparsable", "list"}
    \/ /\ last_scan_file.json = "dict"
       /\ \/ last_scan_file.scan_timestamp.is \in {"string", "null"}
          \/ last_scan_file.builds.is = "number"
          \/ /\ last_scan_file.builds.is = "list"
             /\ \E k \in 1..Len(last_scan_file.builds.items) :
                    last_scan_file.builds.items[k].is = "number"

\* C22: the start-up load of a corrupt document ends as the load without a
\* cache file ends, and raises nothing.
C22_CorruptCacheIsSoftMiss ==
    Corrupt => (startup # "raised" /\ (startup = "done" => AsWithoutCache))

----------------------------------------------------------------------------
(* Properties of the two pools *)

\* the tasks a thread of the task pool is executing
Executing == {t \in TaskIds : w[t].pc \notin Terminal \cup {"queued", "unsubmitted"}}

\* the segment fetches of task t that a thread of its segment pool is executing
InFlight(t) == {i \in 1..Len(w[t].futs) : w[t].futs[i].st = "open"}

AllInFlight == {<<t, i>> \in TaskIds \X (1..MaxConn) : i \in InFlight(t)}

\* C23: at most PoolWidth tasks are executing; a task in multi-segment mode
\* has at most as many segment fetches in flight as its segment pool is wide,
\* a task in single-stream mode has no segment pool, and the fetches in
\* flight are at most PoolWidth times the widest segment pool.
C23_TwoTierBound ==
    /\ Cardinality(Executing) <= PoolWidth
    /\ \A t \in TaskIds :
          /\ Cardinality(InFlight(t)) <= w[t].width
          /\ w[t].width <= MaxConn
          /\ ~w[t].multi => (w[t].width = 0 /\ w[t].futs = <<>>)
    /\ \A n \in 0..MaxConn :
          (\A t \in TaskIds : w[t].width <= n) => Cardinality(AllInFlight) <= PoolWidth * n

C23_Witness ==
    /\ Cardinality(Executing) = PoolWidth
    /\ \E t \in TaskIds : w[t].pc = "queued"
    /\ Len(tasks) = PoolWidth + 1

\* C24: a call of download_file_worker is started at most once for every
\* task of a run, and the ranged GET of every segment is sent at most once.
C24_NoRetries ==
    \A t \in TaskIds :
        /\ w[t].runs <= 1
        /\ \A i \in 1..Len(w[t].futs) : w[t].futs[i].gets <= 1

C24_Witness ==
    /\ pool = "done"
    /\ \E t \in TaskIds :
          /\ w[t].pc = "failed" /\ w[t].runs = 1
          /\ Len(w[t].futs) >= 2
          /\ \E i \in 1..Len(w[t].futs) : w[t].futs[i].st = "req"
          /\ \A i \in 1..Len(w[t].futs) : w[t].futs[i].gets = 1

----------------------------------------------------------------------------
(* Properties of the progress throttle *)

\* C25: any two update_progress calls of a run are more than the throttle
\* interval apart.
C25_ProgressCallsApart ==
    \A i, j \in 1..Len(progress_calls) :
        i < j => progress_calls[j] - progress_calls[i] > ThrottleInterval

----------------------------------------------------------------------------
(* Properties of the catalog reconciler *)

\* how many builds of device d (an index of ANDROID_DEVICES) the scan has
\* gone through
Processed(d) ==
    IF d \notin scan_at.got THEN 0
    ELSE IF d = scan_at.dev /\ scan_at.pc = "build" THEN scan_at.i - 1
    ELSE Len(api_builds[d])

\* the rows of the tree that belong to device d
EntriesOf(d) ==
    {k \in 1..Len(tree) : tree[k].row.device_type = DeviceTypeClean(ANDROID_DEVICES[d])}

\* the builds of device d gone through so far that list a lineage-*.zip
WithPrimary(d) ==
    {j \in 1..Processed(d) :
        \E f \in 1..Len(BuildFilesOf(api_builds[d][j])) :
            IsLineageZip(BuildFilesOf(api_builds[d][j])[f].name)}

\* C26: the tree holds one entry for every build gone through that lists a
\* lineage-*.zip, and none for a build that lists none.
C26_OneEntryPerBuildWithPrimary ==
    /\ \A d \in 1..Len(ANDROID_DEVICES) :
          Cardinality(EntriesOf(d)) = Cardinality(WithPrimary(d))
    /\ \A k \in 1..Len(tree) : IsLineageZip(LineageFilename(tree[k].row.build_files))

C26_Witness ==
    /\ scan_at.pc = "done"
    /\ \E d \in scan_at.got :
          /\ Len(api_builds[d]) = 2
          /\ ~api_builds[d][1].has_zip
          /\ api_builds[d][2].has_zip
          /\ Cardinality(EntriesOf(d)) = 1

\* the matcher finds no repository for the build of tree row k
MatchMiss(k) ==
    \E d \in 1..Len(ANDROID_DEVICES) :
        /\ k \in EntriesOf(d)
        /\ find_matching_gapps_repo(gapps_repo_list, AndroidVersion(tree[k].row.name[2]),
                                    GappsSuffix(ANDROID_DEVICES[d])) = None

----------------------------------------------------------------------------
(* Properties of the start of a run *)

\* C28: when nothing is selected, or the download directory is unset or does
\* not exist, pressing Download starts nothing: the task list stays empty, no
\* pool thread and no worker exists, completed_downloads keeps its value and
\* both buttons stay enabled.
C28_SetupFailureStartsNothing ==
    [][(selection = <<>> \/ download_dir \in {"", "missing"}) =>
          /\ pool' = "idle"
          /\ tasks' = <<>>
          /\ w' = <<>>
          /\ completed_downloads' = completed_downloads
          /\ fs' = fs
          /\ ui_state' = Buttons("normal")]_vars

C28_Witness ==
    /\ messagebox = "Invalid Directory"
    /\ selection # <<>>
    /\ download_dir = "missing"
    /\ completed_downloads = 1
    /\ pool = "idle"
    /\ ui_state = Buttons("normal")

----------------------------------------------------------------------------
(* Properties of the settings dialog during a run *)

\* C29: a multi-connection task uses one value of download_connections: the
\* number of segments it cut, the keys of its progress_dict, the width of its
\* segment pool and the divisor of its segment size are the same number,
\* whatever the settings dialog saves meanwhile.
C29_OneConnectionCountPerTask ==
    \A t \in 1..Len(w) :
        w[t].width # 0 =>
            /\ w[t].nrange = w[t].width
            /\ w[t].progress_dict = w[t].width
            /\ Len(w[t].segments) = w[t].width
            /\ w[t].segment_size = w[t].total_size \div w[t].width

----------------------------------------------------------------------------
(* Properties of the combine step *)

\* C30: a multi-connection task holds its destination file open only when
\* every one of its segment fetches has ended without an error: none is
\* pending or running, none has failed.
C30_DestinationAfterAllSegments ==
    \A t \in 1..Len(w) :
        (w[t].multi /\ w[t].out # NoHandle) =>
            /\ w[t].futs # <<>>
            /\ \A i \in 1..Len(w[t].futs) : w[t].futs[i].st = "done"

C30_Witness ==
    \E t \in 1..Len(w) :
        /\ w[t].multi
        /\ w[t].pc = "copy"
        /\ w[t].out # NoHandle
        /\ fs[FilePath(tasks[t])].ex
        /\ Len(w[t].futs) = 3
        /\ \A i \in 1..3 : w[t].futs[i].st = "done"

----------------------------------------------------------------------------
(* Properties of the paths of a run *)

\* the paths download_file_worker can write for a task: its destination and
\* the temp files of its segments
WritePaths(task) ==
    {FilePath(task)} \cup {TempPath(FilePath(task), k) : k \in 0..(MaxConn - 1)}

\* C31: the tasks of a planned list write pairwise distinct paths: no
\* destination and no segment temp file of one task is a path of another.
C31_WritePathsDistinct ==
    \A i, j \in 1..Len(tasks) :
        i # j => WritePaths(tasks[i]) \cap WritePaths(tasks[j]) = {}

----------------------------------------------------------------------------
(* Properties of create_android_ini *)

\* create_android_ini has run for device type d and left no android.ini
IniFailed(d) ==
    /\ ini_runs[d] >= 1
    /\ ~fs[IniPath(d)].ex

\* C37: when create_android_ini fails for a device type, the pool thread goes
\* on: every other device type of its loop is still to be done or has had its
\* call, and when the loop is over completion is reported, with every device
\* type of the loop called once.
C37_IniFailureIsCaught ==
    \A d \in DOMAIN ini_runs :
        IniFailed(d) =>
            /\ pool \in {"ini", "done"}
            /\ \A e \in android_device_types : e \in ini_left \/ ini_runs[e] = 1
            /\ pool = "done" =>
                  /\ reported = 1
                  /\ \A e \in android_device_types : ini_runs[e] = 1

C37_Witness ==
    /\ pool = "done"
    /\ reported = 1
    /\ android_device_types = {"TV", "Tablet"}
    /\ \E d \in android_device_types :
          /\ IniFailed(d)
          /\ \E e \in android_device_types \ {d} : fs[IniPath(e)].ex

----------------------------------------------------------------------------
(* Properties of the destination of a task that fails early *)

\* C34: while a task that has not opened its destination handles a failed
\* request, the file at its destination path stays as it is.
C34_EarlyFailureKeepsDestination ==
    [][\A t \in 1..Len(w) :
          (w[t].pc = "except_req" /\ w[t].out = NoHandle /\ w'[t].pc = "failed") =>
              fs'[FilePath(tasks[t])] = fs[FilePath(tasks[t])]]_vars

----------------------------------------------------------------------------
(* Properties of the run as a whole *)

\* a pool thread started by start_download_thread has not reported yet
RunActive == pool \notin {"idle", "done"}

\* C33: while a download run is active both buttons are disabled, so that
\* neither a scan nor a second run can be started, and no second pool thread
\* exists.
C33_OneRunAtATime ==
    RunActive =>
        /\ ui_state = Buttons("disabled")
        /\ second_pool = "none"

\* the tasks of the run that reached the increment of line 1229
Succeeded == {t \in 1..Len(w) : w[t].pc = "finished"}

\* C32: when the run has reported, completed_downloads is the number of its
\* tasks that succeeded, and it is the length of the task list exactly when
\* no task failed.
C32_CounterIsSucceededTasks ==
    pool = "done" =>
        /\ completed_downloads = Cardinality(Succeeded)
        /\ (completed_downloads = Len(tasks)) <=>
               (\A t \in 1..Len(w) : w[t].pc = "finished")


\* the cache was loaded at the new start: load_last_scan returned the record
Restored == startup = "done" /\ cache_data.json = "dict" /\ last_scan_file.json = "dict"

\* the rows the scans of the model can have had in the tree when
\* save_scan_cache wrote the file
SavedFrom ==
    {items \in FreshScans : last_scan_file.builds = SavedBuilds(InsertAll(items))}

\* C36: after a save and a load within the freshness window the tree holds,
\* for every entry of the saved catalog and in the same order, a row with the
\* four values and the tag tuple of the freshly inserted row, and the planner
\* builds the same tasks from the restored row as from the fresh one
C36_RoundTripRestoresRows ==
    Restored =>
        \A items \in SavedFrom :
            /\ Len(tree) = Len(items)
            /\ \A k \in 1..Len(items) :
                   LET fresh == add_tree_item(items[k]) IN
                   /\ tree[k].values = fresh.values
                   /\ Len(tree[k].tags) = Len(fresh.tags)
                   /\ tree[k].tags = fresh.tags
                   /\ Plans(<<RowOf(tree[k])>>, TwoRequired) = Plans(<<RowOf(fresh)>>, TwoRequired)

\* a catalog of a Linux file of 0 bytes and a build with a companion came
\* back from the cache
C36_Witness ==
    /\ Restored
    /\ Len(tree) = 2
    /\ tree[1].values[1].val = "Linux" /\ tree[1].tags[2].val = 0
    /\ tree[2].values[1].val = "Android" /\ Len(tree[2].tags) = 6
    /\ tree[2].tags[4].val = 3


\* the monitor loop of task t is running (lines 1174-1185)
Monitoring(t) == t \in TaskIds /\ w[t].pc = "monitor"

\* C35: every run terminates: once download_files_pool is started, every
\* task is started once and ends, and the run reports completion; a monitor
\* loop is left in the end
C35_EveryRunTerminates ==
    /\ (pool = "start") ~> (/\ pool = "done"
                            /\ reported >= 1
                            /\ \A t \in TaskIds : w[t].pc \in Terminal /\ w[t].runs = 1)
    /\ \A t \in 1..MaxTasks : Monitoring(t) ~> ~Monitoring(t)

\* a run has reported although a task with segments failed
C35_Witness ==
    /\ pool = "done"
    /\ reported = 1
    /\ \E t \in TaskIds : w[t].pc = "failed" /\ Len(w[t].futs) >= 2

====
